---- MODULE Spec2Model ----
(***************************************************************************)
(* resinker: the virtual-time event loop of the Orchestrator, the entity   *)
(* state store (StateManager) and the schema-driven generator, as a state  *)
(* machine.                                                                *)
(*                                                                         *)
(* Times are whole seconds after simulation_start_time.  Python values are *)
(* tagged records, so that a string never meets a number in a comparison:  *)
(* Num(n), Str(s), Uuid(n) (the string of the n-th uuid4 of the process's  *)
(* environment) and None.  A dict whose order matters (properties,         *)
(* set_attributes, the entities of a type) is a sequence of entries.       *)
(***************************************************************************)
EXTENDS Integers, Sequences, FiniteSets, TLC

VARIABLES
    cfg,               \* the loaded ResinkerConfig of this run
    pc,                \* where initialize()/run() stands
    simulation_time,   \* Orchestrator.simulation_time
    event_queue,       \* Orchestrator.event_queue, the heapq array
    active_scenarios,  \* Orchestrator.active_scenarios
    entities,          \* StateManager.entities: type -> entities in insertion order
    dicts,             \* the data dicts entities and payloads refer to (by index)
    schema_registry,   \* Orchestrator.schema_registry (config.schemas, same object)
    event_count,       \* the local event_count of run()
    cur,               \* the event being processed: scheduled event, context, payload
    emitted,           \* the events handed to _emit_event, in order
    halt,              \* why run() ended: "" while running
    entropy,           \* number of uuid4 values the environment has handed out
    tape,              \* outputs of the seeded random module drawn in the first run
    rng_pos,           \* position of the seeded random module in its stream
    run_no,            \* 1 for a run, 2 for its re-run with the same seed
    first_run,         \* the event stream of the first run, kept for the re-run
    next_sid,          \* number of ScenarioInstance objects constructed
    trace              \* history: what the last step did (for stating properties)

vars == <<cfg, pc, simulation_time, event_queue, active_scenarios, entities, dicts,
          schema_registry, event_count, cur, emitted, halt, entropy, tape, rng_pos,
          run_no, first_run, next_sid, trace>>

---------------------------------------------------------------------------
\* Bounds of the model.

\* total_events of the configurations with an event limit
MaxEvents == 2
\* duration, in seconds, of the configurations with a duration
DurationSeconds == 20
\* entries pushed per priming and per replenishment: the source pushes 10
\* (range(10)); the model scales the batch down
BatchSize == 2
\* scenario slots: the source starts 5 and refills below 5; scaled down
ScenarioSlots == 2
\* the queue length below which the loop replenishes: 100 in the source;
\* scaled down with the batch
QueueLowWater == 3
\* the pushes of a run of the queue on its own
MaxPushes == 5
\* the create_entity calls of a run of the store on its own, and the value
\* its counters are incremented up to
MaxCreates == 3
MaxCount == 1
\* the entries of a file's imports list
MaxImports == 2
\* the entries of a choice generator's weights list
MaxWeights == 2

---------------------------------------------------------------------------
\* Python values.

Num(n) == [num |-> n]
Str(s) == [str |-> s]
Uuid(n) == [uuid |-> n]
None == [none |-> TRUE]

\* isinstance(v, (int, float))
IsNumeric(v) == "num" \in DOMAIN v

Range(s) == {s[i] : i \in DOMAIN s}

\* d.get(key) on a dict kept as a function
Get(d, key) == IF key \in DOMAIN d THEN d[key] ELSE None

\* a.update(b)
DictUpdate(a, b) ==
    [k \in DOMAIN a \cup DOMAIN b |-> IF k \in DOMAIN b THEN b[k] ELSE a[k]]

\* the dict a with a[key] = value
DictSet(a, key, value) ==
    [k \in DOMAIN a \cup {key} |-> IF k = key THEN value ELSE a[k]]

EmptyDict == [k \in {} |-> None]

\* a list value and a nested dict value
List(items) == [list |-> items]
Obj(d) == [obj |-> d]

---------------------------------------------------------------------------
\* state_manager.py: Entity.

\* The result of a call that may raise: ok with a value, or the exception.
Ok(v) == [ok |-> TRUE, v |-> v]
Raise(e) == [ok |-> FALSE, err |-> e]

\* The walk of a dotted path through nested dicts (Entity.matches_filter's
\* inner loop, Orchestrator._get_nested_value, FromEntityGenerator.generate):
\* a missing part, or a part looked up in a non-dict, gives None.
RECURSIVE WalkPath(_, _, _)
WalkPath(value, parts, i) ==
    IF i > Len(parts) THEN value
    ELSE IF "obj" \in DOMAIN value /\ parts[i] \in DOMAIN value.obj
         THEN WalkPath(value.obj[parts[i]], parts, i + 1)
         ELSE None

\* OPERATORS: the names the store knows
OPERATORS == {"equals", "not_equals", "greater_than", "less_than",
              "greater_equals", "less_equals", "contains", "not_contains",
              "in", "not_in"}

\* hasattr(a, "__contains__"): strings, lists and dicts
HasContains(a) ==
    "str" \in DOMAIN a \/ "uuid" \in DOMAIN a \/ "list" \in DOMAIN a \/ "obj" \in DOMAIN a

\* b in a, for a with __contains__: list membership, dict key, and for a
\* string the substring test, which raises TypeError when b is no string
\* (string values are atoms here: one contains another iff they are equal)
PyIn(b, a) ==
    IF "list" \in DOMAIN a THEN Ok(b \in Range(a.list))
    ELSE IF "obj" \in DOMAIN a
         THEN Ok("str" \in DOMAIN b /\ b.str \in DOMAIN a.obj)
         ELSE IF "str" \in DOMAIN b \/ "uuid" \in DOMAIN b
              THEN Ok(a = b) ELSE Raise("TypeError")

\* op_func(actual_value, value): the operator module's comparisons.  An
\* ordering comparison of two numbers is numeric; of anything else it raises
\* TypeError, as Python 3 does for None or a string against a number
\* (string against string ordering is not used by the configurations here).
ApplyOperator(op, a, b) ==
    CASE op = "equals" -> Ok(a = b)
      [] op = "not_equals" -> Ok(a # b)
      [] op \in {"greater_than", "less_than", "greater_equals", "less_equals"} ->
            IF IsNumeric(a) /\ IsNumeric(b)
            THEN Ok(CASE op = "greater_than" -> a.num > b.num
                      [] op = "less_than" -> a.num < b.num
                      [] op = "greater_equals" -> a.num >= b.num
                      [] OTHER -> a.num <= b.num)
            ELSE Raise("TypeError")
      [] op = "contains" -> IF HasContains(a) THEN PyIn(b, a) ELSE Ok(FALSE)
      [] op = "not_contains" ->
            IF HasContains(a)
            THEN (LET r == PyIn(b, a) IN IF r.ok THEN Ok(~r.v) ELSE r)
            ELSE Ok(TRUE)
      [] op = "in" -> IF HasContains(b) THEN PyIn(a, b) ELSE Ok(FALSE)
      [] OTHER ->
            IF HasContains(b)
            THEN (LET r == PyIn(a, b) IN IF r.ok THEN Ok(~r.v) ELSE r)
            ELSE Ok(TRUE)

\* The value a filter's field names in an entity: state.<key> reads the state
\* map, anything else walks data.  A field is its dotted parts.
ActualValue(entity, dd, field) ==
    IF Len(field) > 1 /\ field[1] = "state"
    THEN Get(entity.state, field[2])
    ELSE WalkPath(Obj(dd[entity.data]), field, 1)

\* Entity.matches_filter: the conjunction, left to right, stopping at the
\* first filter that fails; an unknown operator raises ValueError.
RECURSIVE matches_filter(_, _, _, _)
matches_filter(entity, dd, filters, i) ==
    IF i > Len(filters) THEN Ok(TRUE)
    ELSE LET f == filters[i]
             actual == ActualValue(entity, dd, f.field)
         IN IF f.operator \notin OPERATORS THEN Raise("ValueError")
            ELSE LET Then(r) == IF ~r.ok THEN r
                                ELSE IF ~r.v THEN Ok(FALSE)
                                     ELSE matches_filter(entity, dd, filters, i + 1)
                 IN Then(ApplyOperator(f.operator, actual, f.value))

\* An increment whose sum is never stored
IncrementDropped(state, key, value) ==
    IF key \in DOMAIN state /\ ~IsNumeric(state[key]) THEN Raise("ValueError")
    ELSE Ok(state)

\* Entity.increment_state: state[key] += value, ValueError unless both the
\* current value (0 when absent) and the increment are numbers.
increment_state(state, key, value) ==
    LET current == IF key \in DOMAIN state THEN state[key] ELSE Num(0)
    IN IF IsNumeric(current) /\ IsNumeric(value)
       THEN Ok(DictSet(state, key, Num(current.num + value.num)))
       ELSE Raise("ValueError")

---------------------------------------------------------------------------
\* state_manager.py: StateManager.  st is StateManager.entities, a function
\* from the registered types to their entities in insertion order.

\* the position of the entity with this id among es, 0 if none
IndexOfId(es, id) ==
    IF \E i \in DOMAIN es : es[i].id = id
    THEN CHOOSE i \in DOMAIN es : es[i].id = id
    ELSE 0

\* StateManager.get_all_entities
get_all_entities(st, entity_type) ==
    IF entity_type \notin DOMAIN st THEN <<>> ELSE st[entity_type]

\* StateManager.get_entity: the entity, or None
get_entity(st, entity_type, entity_id) ==
    IF entity_type \in DOMAIN st /\ IndexOfId(st[entity_type], entity_id) # 0
    THEN st[entity_type][IndexOfId(st[entity_type], entity_id)]
    ELSE None

\* StateManager.find_entities (no limit): the matching entities in store order,
\* or the exception the first failing comparison raises.
RECURSIVE FindFrom(_, _, _, _, _)
FindFrom(es, dd, filters, i, acc) ==
    IF i > Len(es) THEN Ok(acc)
    ELSE LET Then(r) == IF ~r.ok THEN r
                        ELSE FindFrom(es, dd, filters, i + 1,
                                      IF r.v THEN Append(acc, es[i]) ELSE acc)
         IN Then(matches_filter(es[i], dd, filters, 1))

find_entities(st, dd, entity_type, filters) ==
    IF entity_type \notin DOMAIN st THEN Ok(<<>>)
    ELSE FindFrom(st[entity_type], dd, filters, 1, <<>>)

\* StateManager.count_entities with a filter list
count_entities(st, dd, entity_type, filters) ==
    IF entity_type \notin DOMAIN st THEN Ok(0)
    ELSE LET Count(r) == IF r.ok THEN Ok(Len(r.v)) ELSE r
         IN Count(find_entities(st, dd, entity_type, filters))

\* Entity.__init__ and StateManager.create_entity: the type is registered on
\* first use; the id is data[primary_key], or a fresh uuid4 string when the
\* key is absent; an entity with the same id is replaced where it stands
\* (a dict assignment keeps the key's position).  data is the index of the
\* data dict, which the entity shares with whoever else holds it.
NewEntity(dd, entity_type, data, primary_key, uuid) ==
    [entity_type |-> entity_type,
     id |-> IF primary_key \in DOMAIN dd[data] THEN dd[data][primary_key] ELSE Uuid(uuid),
     primary_key |-> primary_key,
     data |-> data,
     state |-> EmptyDict]

\* A store that appends whatever the id
PutAppends(st, entity) ==
    LET t == entity.entity_type
        old == IF t \in DOMAIN st THEN st[t] ELSE <<>>
    IN [k \in DOMAIN st \cup {t} |-> IF k = t THEN Append(old, entity) ELSE st[k]]

PutEntity(st, entity) ==
    LET t == entity.entity_type
        old == IF t \in DOMAIN st THEN st[t] ELSE <<>>
        at == IndexOfId(old, entity.id)
        new == IF at = 0 THEN Append(old, entity) ELSE [old EXCEPT ![at] = entity]
    IN [k \in DOMAIN st \cup {t} |-> IF k = t THEN new ELSE st[k]]

create_entity(st, dd, entity_type, data, primary_key, uuid) ==
    PutEntity(st, NewEntity(dd, entity_type, data, primary_key, uuid))

\* an update that leaves the entity's data as it was
UpdateIgnored(st, dd, entity_type, entity_id, data) == dd

\* StateManager.update_entity: entity.data.update(data) on the entity's own
\* data dict; nothing when the entity is not there.  Gives the new dicts.
update_entity(st, dd, entity_type, entity_id, data) ==
    LET e == get_entity(st, entity_type, entity_id)
    IN IF e = None THEN dd
       ELSE [dd EXCEPT ![e.data] = DictUpdate(dd[e.data], data)]

\* The set_attributes loop of update_entity_state on a state map
RECURSIVE ApplySets(_, _, _)
ApplySets(state, sets, i) ==
    IF i > Len(sets) THEN state
    ELSE ApplySets(DictSet(state, sets[i].key, sets[i].value), sets, i + 1)

\* The increment_attributes loop: stops at the first increment that raises,
\* with what was applied before it still applied.
RECURSIVE ApplyIncrements(_, _, _)
ApplyIncrements(state, incs, i) ==
    IF i > Len(incs) THEN [ok |-> TRUE, state |-> state]
    ELSE LET r == increment_state(state, incs[i].key, incs[i].value)
         IN IF r.ok THEN ApplyIncrements(r.v, incs, i + 1)
            ELSE [ok |-> FALSE, err |-> r.err, state |-> state]

\* Entity state after StateManager.update_entity_state's two loops
UpdatedState(state, set_attributes, increment_attributes) ==
    ApplyIncrements(ApplySets(state, set_attributes, 1), increment_attributes, 1)

\* An update that makes the entity when none is found
UpdateOrInsert(st, entity_type, entity_id, set_attributes, increment_attributes) ==
    IF entity_type \in DOMAIN st /\ IndexOfId(st[entity_type], entity_id) # 0
    THEN LET at == IndexOfId(st[entity_type], entity_id)
             r == UpdatedState(st[entity_type][at].state, set_attributes,
                               increment_attributes)
         IN [ok |-> r.ok, found |-> TRUE,
             st |-> [st EXCEPT ![entity_type][at].state = r.state]]
    ELSE [ok |-> TRUE, found |-> FALSE,
          st |-> [k \in DOMAIN st \cup {entity_type} |->
                     (IF k \in DOMAIN st THEN st[k] ELSE <<>>) \o
                     (IF k = entity_type
                      THEN <<[entity_type |-> entity_type, id |-> entity_id,
                              primary_key |-> "id", data |-> 1,
                              state |-> ApplySets(EmptyDict, set_attributes, 1)]>>
                      ELSE <<>>)]]

\* An update that drops the entity from the store
UpdateDropsEntity(st, entity_type, entity_id, set_attributes, increment_attributes) ==
    IF entity_type \in DOMAIN st /\ IndexOfId(st[entity_type], entity_id) # 0
    THEN [ok |-> TRUE, found |-> TRUE,
          st |-> [st EXCEPT ![entity_type] = SelectSeq(@, LAMBDA e : e.id # entity_id)]]
    ELSE [ok |-> TRUE, found |-> FALSE, st |-> st]

\* StateManager.update_entity_state: [ok, st]: the store afterwards, and
\* whether the call returned (ok) or raised.  Missing entity: returns None,
\* store untouched.
update_entity_state(st, entity_type, entity_id, set_attributes, increment_attributes) ==
    IF entity_type \in DOMAIN st /\ IndexOfId(st[entity_type], entity_id) # 0
    THEN LET at == IndexOfId(st[entity_type], entity_id)
             r == UpdatedState(st[entity_type][at].state, set_attributes,
                               increment_attributes)
         IN [ok |-> r.ok, found |-> TRUE,
             st |-> [st EXCEPT ![entity_type][at].state = r.state]]
    ELSE [ok |-> TRUE, found |-> FALSE, st |-> st]

---------------------------------------------------------------------------
\* generators.py.  A schema is the dict of the configuration: a record with
\* the keys it has ("ref" for "$ref", which holds the schema's name;
\* "properties" in declaration order).  Generation is a relation: the set of
\* outcomes, one per way the random draws can fall.  An outcome carries
\*   draws: the draws made from the seeded random module, each [i, n]: the
\*          index of the option taken and the number of options it had;
\*   uuids: how many uuid4 values were taken from the environment.
\* A probability is in percent (100 is 1.0).

Val(v, draws, uuids) == [ok |-> TRUE, v |-> v, draws |-> draws, uuids |-> uuids]
Err(e, draws, uuids) == [ok |-> FALSE, err |-> e, draws |-> draws, uuids |-> uuids]

\* One draw among the options, a sequence: every index with its option
DrawFrom(options) ==
    {[i |-> i, v |-> options[i], d |-> <<[i |-> i, n |-> Len(options)]>>] :
         i \in DOMAIN options}

\* str(value) as _generate_string applies it to a leaf's result
PyStr(v) ==
    IF "num" \in DOMAIN v THEN [numstr |-> v.num]
    ELSE IF "none" \in DOMAIN v THEN Str("None")
         ELSE v

\* random.choices(population, weights): an item of positive weight;
\* ValueError when the weights sum to zero
RECURSIVE SumWeights(_, _)
SumWeights(weights, i) ==
    IF i > Len(weights) THEN 0 ELSE weights[i] + SumWeights(weights, i + 1)

WeightedOptions(population, weights) ==
    {d \in DrawFrom(population) : weights[d.i] > 0}

\* ChoiceGenerator.generate and ConditionalChoiceGenerator._choose_from_case:
\* params holds choices and, possibly, weights
ChooseFrom(params, uuids) ==
    LET choices == IF "choices" \in DOMAIN params THEN params.choices ELSE <<>>
        weights == IF "weights" \in DOMAIN params THEN params.weights ELSE <<>>
    IN IF choices = <<>> THEN {Err("ValueError", <<>>, uuids)}
       ELSE IF weights # <<>>
            THEN IF Len(weights) # Len(choices) \/ SumWeights(weights, 1) = 0
                 THEN {Err("ValueError", <<>>, uuids)}
                 ELSE {Val(d.v, d.d, uuids) : d \in WeightedOptions(choices, weights)}
            ELSE {Val(d.v, d.d, uuids) : d \in DrawFrom(choices)}

\* RandomIntGenerator.generate: random.randint(min, max), defaults 0 and 100;
\* randint raises ValueError on an empty range
RandomInt(schema, uuids) ==
    LET params == IF "params" \in DOMAIN schema THEN schema.params ELSE EmptyDict
        lo == IF "min" \in DOMAIN params THEN params.min ELSE 0
        hi == IF "max" \in DOMAIN params THEN params.max ELSE 100
    IN IF lo > hi THEN {Err("ValueError", <<>>, uuids)}
       ELSE {Val(Num(n), <<[i |-> n - lo + 1, n |-> hi - lo + 1]>>, uuids) : n \in lo..hi}

\* DerivedGenerator.generate: eval of params.expression in the context.  An
\* expression is the sum of the names it lists; a name the context lacks
\* (NameError) or a non-numeric operand (TypeError) is re-raised as ValueError.
RECURSIVE SumNames(_, _, _)
SumNames(names, values, i) ==
    IF i > Len(names) THEN 0 ELSE values[names[i]].num + SumNames(names, values, i + 1)

Derived(schema, values, uuids) ==
    LET params == IF "params" \in DOMAIN schema THEN schema.params ELSE EmptyDict
    IN IF "expression" \notin DOMAIN params \/ params.expression = <<>>
       THEN {Err("ValueError", <<>>, uuids)}
       ELSE IF \A i \in DOMAIN params.expression :
                  /\ params.expression[i] \in DOMAIN values
                  /\ IsNumeric(values[params.expression[i]])
            THEN {Val(Num(SumNames(params.expression, values, 1)), <<>>, uuids)}
            ELSE {Err("ValueError", <<>>, uuids)}

\* CurrentTimestampGenerator.generate: the context's simulation_time in the
\* schema's format (isoformat by default and for an unknown format)
CurrentTimestamp(schema, ctx, uuids) ==
    LET format_type == IF "format" \in DOMAIN schema THEN schema.format ELSE "iso8601"
    IN IF format_type = "unix" THEN {Val(Num(ctx.simulation_time), <<>>, uuids)}
       ELSE IF format_type = "unix_ms"
            THEN {Val(Num(ctx.simulation_time * 1000), <<>>, uuids)}
            ELSE {Val([iso |-> ctx.simulation_time], <<>>, uuids)}

\* The entity FromEntityGenerator.generate settles on: the context's
\* entity_<name>, else the first consumed entity whose alias or type is the
\* name, else a random entity of that type; the set of [e, draws], empty
\* when there is none.  e is a binding: [one |-> entity] or [many |-> list].
RECURSIVE FirstConsumed(_, _, _)
FirstConsumed(consumed, from_entity, i) ==
    IF i > Len(consumed) THEN None
    ELSE IF consumed[i].alias = from_entity
            \/ (Len(consumed[i].entities) > 0
                /\ consumed[i].entities[1].entity_type = from_entity)
         THEN consumed[i].entities[1]
         ELSE FirstConsumed(consumed, from_entity, i + 1)

ResolveFromEntity(from_entity, ctx, st) ==
    IF from_entity \in DOMAIN ctx.entity
    THEN {[e |-> ctx.entity[from_entity], draws |-> <<>>]}
    ELSE IF FirstConsumed(ctx.consumed_entities, from_entity, 1) # None
         THEN {[e |-> [one |-> FirstConsumed(ctx.consumed_entities, from_entity, 1)],
                draws |-> <<>>]}
         ELSE {[e |-> [one |-> d.v], draws |-> d.d] :
                   d \in DrawFrom(get_all_entities(st, from_entity))}

\* FromEntityGenerator.generate: the field of the entity's data.  A context
\* entry that is a list of entities has no .data: AttributeError.
FromEntity(schema, ctx, st, dd, uuids) ==
    IF "field" \notin DOMAIN schema THEN {Err("ValueError", <<>>, uuids)}
    ELSE LET found == ResolveFromEntity(schema.from_entity, ctx, st)
         IN IF found = {} THEN {Err("ValueError", <<>>, uuids)}
            ELSE {IF "many" \in DOMAIN f.e THEN Err("AttributeError", f.draws, uuids)
                  ELSE Val(WalkPath(Obj(dd[f.e.one.data]), schema.field, 1),
                           f.draws, uuids) : f \in found}

\* generator_factory and the leaf's generate.  The generators the
\* configurations here use; any other name is unknown to the factory.
KnownGenerators == {"uuid_v4", "random_int", "choice", "derived", "current_timestamp",
                    "from_entity"}

Leaf(schema, ctx, st, dd, uuid0) ==
    LET g == schema.generator
    IN CASE g = "uuid_v4" -> {Val(Uuid(uuid0 + 1), <<>>, 1)}
         [] g = "random_int" -> RandomInt(schema, 0)
         [] g = "choice" ->
               ChooseFrom(IF "params" \in DOMAIN schema THEN schema.params ELSE EmptyDict, 0)
         [] g = "derived" -> Derived(schema, ctx.values, 0)
         [] g = "current_timestamp" -> CurrentTimestamp(schema, ctx, 0)
         [] g = "from_entity" -> FromEntity(schema, ctx, st, dd, 0)
         [] OTHER -> {Err("ValueError", <<>>, 0)}

\* The defaults of the scalar types without a generator: faker.word(),
\* random.uniform(0, 100), random.randint(0, 100), random.choice([True, False]);
\* each a draw, here among two representative values
DefaultOptions(schema_type) ==
    CASE schema_type = "string" -> <<Str("alpha"), Str("beta")>>
      [] schema_type = "boolean" -> <<[bool |-> TRUE], [bool |-> FALSE]>>
      [] OTHER -> <<Num(0), Num(100)>>

Scalar(schema, schema_type, ctx, st, dd, uuid0) ==
    IF "generator" \in DOMAIN schema
    THEN IF schema_type = "string"
         THEN {IF o.ok THEN Val(PyStr(o.v), o.draws, o.uuids) ELSE o :
                   o \in Leaf(schema, ctx, st, dd, uuid0)}
         ELSE Leaf(schema, ctx, st, dd, uuid0)
    ELSE {Val(d.v, d.d, 0) : d \in DrawFrom(DefaultOptions(schema_type))}

\* The $ref merge of SchemaGenerator.generate: a copy of the referenced
\* schema with every other key of the referring schema laid over it
MergeRef(reg, schema) ==
    LET base == reg[schema.ref]
        over == DOMAIN schema \ {"ref"}
    IN [k \in DOMAIN base \cup over |-> IF k \in over THEN schema[k] ELSE base[k]]

\* a nullability step that never gives null
NeverNull(schema) == {[null |-> FALSE, draws |-> <<>>]}

\* random.random() < nullable_probability, asked only when the probability
\* is positive: the draw falls below it (option 1) or not (option 2)
NullDraws(schema) ==
    LET p == IF "nullable_probability" \in DOMAIN schema
             THEN schema.nullable_probability ELSE 0
    IN IF p <= 0 THEN {[null |-> FALSE, draws |-> <<>>]}
       ELSE {[null |-> TRUE, draws |-> <<[i |-> 1, n |-> 2]>>]} \cup
            (IF p < 100 THEN {[null |-> FALSE, draws |-> <<[i |-> 2, n |-> 2]>>]} ELSE {})

\* SchemaGenerator.generate and _generate_object.  ctx.values holds what the
\* object context has gained: the sibling properties generated so far.
RECURSIVE generate(_, _, _, _, _, _)
RECURSIVE GenProps(_, _, _, _, _, _, _, _, _, _)

generate(schema, ctx, st, dd, reg, uuid0) ==
    IF "ref" \in DOMAIN schema
    THEN IF schema.ref \notin DOMAIN reg THEN {Err("ValueError", <<>>, 0)}
         ELSE generate(MergeRef(reg, schema), ctx, st, dd, reg, uuid0)
    ELSE UNION {
        IF n.null THEN {Val(None, n.draws, 0)}
        ELSE LET rest ==
                   IF "from_entity" \in DOMAIN schema
                   THEN FromEntity(schema, ctx, st, dd, 0)
                   ELSE LET schema_type == IF "type" \in DOMAIN schema
                                           THEN schema.type ELSE "string"
                        IN IF schema_type = "object"
                           THEN GenProps(IF "properties" \in DOMAIN schema
                                         THEN schema.properties ELSE <<>>,
                                         1, ctx, st, dd, reg, uuid0, EmptyDict, <<>>, 0)
                           ELSE IF schema_type \in {"string", "number", "integer", "boolean"}
                                THEN Scalar(schema, schema_type, ctx, st, dd, uuid0)
                                ELSE {Err("ValueError", <<>>, 0)}
             IN {[o EXCEPT !.draws = n.draws \o o.draws] : o \in rest}
        : n \in NullDraws(schema)}

GenProps(props, i, ctx, st, dd, reg, uuid0, result, draws, uuids) ==
    IF i > Len(props) THEN {Val(Obj(result), draws, uuids)}
    ELSE UNION {
        IF o.ok
        THEN GenProps(props, i + 1,
                      [ctx EXCEPT !.values = DictSet(ctx.values, props[i].name, o.v)],
                      st, dd, reg, uuid0,
                      DictSet(result, props[i].name, o.v),
                      draws \o o.draws, uuids + o.uuids)
        ELSE {Err(o.err, draws \o o.draws, uuids + o.uuids)}
        : o \in generate(props[i].schema, ctx, st, dd, reg, uuid0 + uuids)}

---------------------------------------------------------------------------
\* orchestrator.py: ScheduledEvent and the heapq calls on event_queue.

\* ScheduledEvent.__lt__
Lt(a, b) == a.scheduled_time < b.scheduled_time

\* heapq._siftdown(heap, startpos, pos) with newitem taken out of heap[pos]
\* (positions from 1: the parent of p is p \div 2)
RECURSIVE SiftDown(_, _, _, _)
SiftDown(heap, startpos, pos, newitem) ==
    IF pos > startpos /\ Lt(newitem, heap[pos \div 2])
    THEN SiftDown([heap EXCEPT ![pos] = heap[pos \div 2]], startpos, pos \div 2, newitem)
    ELSE [heap EXCEPT ![pos] = newitem]

\* heapq._siftup(heap, pos): the smaller child is moved up until a leaf is
\* reached, then newitem is sifted down from there
RECURSIVE SiftUp(_, _, _, _)
SiftUp(heap, startpos, pos, newitem) ==
    LET childpos == 2 * pos
        rightpos == childpos + 1
        c == IF rightpos <= Len(heap) /\ ~Lt(heap[childpos], heap[rightpos])
             THEN rightpos ELSE childpos
    IN IF childpos <= Len(heap)
       THEN SiftUp([heap EXCEPT ![pos] = heap[c]], startpos, c, newitem)
       ELSE SiftDown([heap EXCEPT ![pos] = newitem], startpos, pos, newitem)

\* heapq.heappush(self.event_queue, scheduled_event)
heappush(heap, item) == SiftDown(Append(heap, item), 1, Len(heap) + 1, item)

\* A pop that takes the list's last entry instead of the heap's least
PopLast(heap) ==
    [item |-> heap[Len(heap)], heap |-> SubSeq(heap, 1, Len(heap) - 1)]

\* heapq.heappop(self.event_queue): [item, heap]
heappop(heap) ==
    LET lastelt == heap[Len(heap)]
        rest == SubSeq(heap, 1, Len(heap) - 1)
    IN IF rest = <<>> THEN [item |-> lastelt, heap |-> rest]
       ELSE [item |-> heap[1], heap |-> SiftUp(rest, 1, 1, lastelt)]

\* ScheduledEvent(event_type, scheduled_time, context).  A context is {} or a
\* scenario step's: the scenario's context, the instance and the step's
\* payload_overrides when the step has the key.  origin and step are history:
\* who pushed the entry, and which step of its instance it is.
NoContext == [scenario_instance |-> 0, step |-> 0, entities |-> <<>>,
              has_overrides |-> FALSE, payload_overrides |-> <<>>]

ScheduledEvent(event_type, scheduled_time, context, origin) ==
    [event_type |-> event_type, scheduled_time |-> scheduled_time,
     context |-> context, origin |-> origin]

---------------------------------------------------------------------------
\* The configurations the runs are drawn from (what load_config returns).
\* -1 stands for a setting left out (None).

Unset == 0 - 1

UserSchema ==
    [type |-> "object",
     properties |-> <<
        [name |-> "user_id", schema |-> [type |-> "string", generator |-> "uuid_v4"]],
        [name |-> "tier",
         schema |-> [type |-> "string", generator |-> "choice",
                     params |-> [choices |-> <<Str("free"), Str("pro")>>]]]>>]

PurchaseSchema ==
    [type |-> "object",
     properties |-> <<
        [name |-> "buyer", schema |-> [from_entity |-> "buyer", field |-> <<"user_id">>]],
        [name |-> "status",
         schema |-> [type |-> "string", generator |-> "choice",
                     params |-> [choices |-> <<Str("ok"), Str("failed")>>]]],
        [name |-> "amount",
         schema |-> [type |-> "integer", generator |-> "random_int",
                     params |-> [min |-> 1, max |-> 1]]]>>]

\* total = amount + tax, and no property tax: the expression names an unknown
AuditSchema ==
    [type |-> "object",
     properties |-> <<
        [name |-> "amount",
         schema |-> [type |-> "integer", generator |-> "random_int",
                     params |-> [min |-> 1, max |-> 1]]],
        [name |-> "total",
         schema |-> [type |-> "number", generator |-> "derived",
                     params |-> [expression |-> <<"amount", "tax">>]]]>>]

\* a property that refers to a schema the registry lacks
ReceiptSchema ==
    [type |-> "object",
     properties |-> <<[name |-> "address", schema |-> [ref |-> "Address"]]>>]

\* a property whose generator the factory does not know
BadgeSchema ==
    [type |-> "object",
     properties |-> <<[name |-> "badge", schema |-> [type |-> "string", generator |-> "badge"]]>>]

TickSchema ==
    [type |-> "object",
     properties |-> <<[name |-> "at",
                       schema |-> [type |-> "integer", generator |-> "current_timestamp",
                                   format |-> "unix"]]>>]

\* an account is a user's id alone: it has no tier
AccountSchema ==
    [type |-> "object",
     properties |-> <<
        [name |-> "user_id", schema |-> [type |-> "string", generator |-> "uuid_v4"]]>>]

Schemas ==
    [User |-> UserSchema, Purchase |-> PurchaseSchema, Audit |-> AuditSchema,
     Receipt |-> ReceiptSchema, Badge |-> BadgeSchema, Tick |-> TickSchema,
     Account |-> AccountSchema]

\* entities: user, with a counter that defaults to 0 and a label taken from
\* the data's tier
Entities ==
    [user |->
        [schema |-> "User", primary_key |-> "user_id",
         state_attributes |-> <<
            [name |-> "purchase_count", def |-> [type |-> "integer", default |-> Num(0)]],
            [name |-> "label", def |-> [type |-> "string", from_field |-> "tier"]]>>]]

\* a signup makes a user and marks it through the alias of its entity type
Signup ==
    [payload_schema |-> "User", produces_entity |-> "user",
     updates_entity_state |-> <<
        [entity_alias |-> "user",
         set_attributes |-> <<[key |-> "last_status", value |-> Str("new")]>>]>>,
     frequency_weight |-> 1]

\* a purchase by a user who has not bought yet; counts it and notes its status
Purchase ==
    [payload_schema |-> "Purchase",
     consumes_entities |-> <<
        [name |-> "user", alias |-> "buyer", min_required |-> 1,
         selection_filter |-> <<[field |-> <<"state", "purchase_count">>,
                                 operator |-> "less_than", value |-> Num(1)]>>]>>,
     updates_entity_state |-> <<
        [entity_alias |-> "buyer",
         set_attributes |-> <<[key |-> "last_status",
                               value |-> [from_payload_field |-> <<"status">>]]>>,
         increment_attributes |-> <<[key |-> "purchase_count", value |-> Num(1)]>>]>>,
     frequency_weight |-> 1]

\* increments the counter and then the label, which is a string
Relabel ==
    [payload_schema |-> "Tick",
     consumes_entities |-> <<
        [name |-> "user", alias |-> "buyer", min_required |-> 1,
         selection_filter |-> <<>>]>>,
     updates_entity_state |-> <<
        [entity_alias |-> "buyer",
         set_attributes |-> <<[key |-> "last_status", value |-> Str("seen")]>>,
         increment_attributes |-> <<[key |-> "purchase_count", value |-> Num(1)],
                                    [key |-> "label", value |-> Num(1)]>>]>>,
     frequency_weight |-> 1]

Profile ==
    [payload_schema |-> "User", produces_or_updates_entity |-> "user",
     update_existing_probability |-> 50, frequency_weight |-> 1]

\* an enrolment makes a user from an account
Enroll == [payload_schema |-> "Account", produces_entity |-> "user", frequency_weight |-> 1]

Audit == [payload_schema |-> "Audit", frequency_weight |-> 1]
Receipt == [payload_schema |-> "Receipt", frequency_weight |-> 1]
Badge == [payload_schema |-> "Badge", frequency_weight |-> 1]
\* the payload schema itself is not in the registry
Ghost == [payload_schema |-> "Nowhere", frequency_weight |-> 1]
Tick == [payload_schema |-> "Tick", frequency_weight |-> 1]

\* scenarios
Onboard ==
    [initiation_weight |-> 1,
     requires_initial_entities |-> <<[name |-> "user", alias |-> "buyer",
                                      selection_filter |-> <<>>]>>,
     steps |-> <<[event_type |-> "purchase",
                  payload_overrides |-> <<[key |-> "status", value |-> Str("vip")],
                                          [key |-> "coupon", value |-> Str("x")]>>],
                 [event_type |-> "signup"],
                 [event_type |-> "tick"]>>]

Welcome ==
    [initiation_weight |-> 1,
     steps |-> <<[event_type |-> "tick"]>>]

NoScenarios == [k \in {} |-> Welcome]

Settings(duration, total_events, seed, counts) ==
    [duration |-> duration, total_events |-> total_events, random_seed |-> seed,
     initial_entity_counts |-> counts]

\* outputs: the enabled handlers, in order
StdoutOnly == <<[type |-> "stdout"]>>
FileAndStdout == <<[type |-> "file"], [type |-> "stdout"]>>

Config(name, settings, event_types, scenarios, outputs) ==
    [name |-> name, simulation_settings |-> settings, schemas |-> Schemas,
     entities |-> Entities, event_types |-> event_types, scenarios |-> scenarios,
     outputs |-> outputs]

OneUser == <<[entity_type |-> "user", count |-> 1]>>

Configs ==
    {Config("duration", Settings(DurationSeconds, Unset, Unset, <<>>),
            [tick |-> Tick], NoScenarios, StdoutOnly),
     Config("sinks", Settings(Unset, MaxEvents, Unset, <<>>),
            [tick |-> Tick], NoScenarios, FileAndStdout),
     Config("limit", Settings(Unset, MaxEvents, Unset, <<>>),
            [tick |-> Tick, profile |-> Profile], [welcome |-> Welcome], StdoutOnly),
     Config("scenario", Settings(Unset, MaxEvents, Unset, OneUser),
            [purchase |-> Purchase, signup |-> Signup], [onboard |-> Onboard], StdoutOnly),
     Config("drain", Settings(Unset, MaxEvents, Unset, OneUser),
            [purchase |-> Purchase], NoScenarios, StdoutOnly),
     Config("errors", Settings(Unset, MaxEvents, Unset, OneUser),
            [audit |-> Audit, relabel |-> Relabel, badge |-> Badge], NoScenarios, StdoutOnly),
     Config("lookup", Settings(DurationSeconds, Unset, Unset, <<>>),
            [ghost |-> Ghost, receipt |-> Receipt], NoScenarios, StdoutOnly),
     Config("seeded", Settings(Unset, MaxEvents, 1, <<>>),
            [signup |-> Signup], NoScenarios, StdoutOnly),
     Config("profiles", Settings(Unset, MaxEvents, Unset, OneUser),
            [profile |-> Profile], NoScenarios, StdoutOnly),
     Config("optional", Settings(Unset, MaxEvents, Unset, <<>>),
            [relabel |-> [Relabel EXCEPT !.consumes_entities[1].min_required = 0]],
            NoScenarios, StdoutOnly),
     Config("bulk", Settings(Unset, MaxEvents, Unset, <<[entity_type |-> "user", count |-> 2]>>),
            [relabel |-> [Relabel EXCEPT
                             !.consumes_entities[1].min_required = 2,
                             !.updates_entity_state[1].increment_attributes =
                                 <<[key |-> "purchase_count", value |-> Num(1)]>>]],
            NoScenarios, StdoutOnly),
     [Config("twin", Settings(Unset, MaxEvents, Unset, <<>>),
             [twin |-> [payload_schema |-> "Account", produces_entity |-> "user",
                        produces_or_updates_entity |-> "account",
                        update_existing_probability |-> 50, frequency_weight |-> 1]],
             NoScenarios, StdoutOnly)
        EXCEPT !.entities =
           [user |-> Entities.user,
            account |-> [schema |-> "Account", primary_key |-> "user_id",
                         state_attributes |-> <<>>]]],
     Config("enroll", Settings(Unset, MaxEvents, Unset, <<>>),
            [enroll |-> Enroll], NoScenarios, StdoutOnly),
     Config("starved", Settings(Unset, MaxEvents, Unset, <<>>),
            [signup |-> [Signup EXCEPT !.frequency_weight = 0], purchase |-> Purchase],
            NoScenarios, StdoutOnly),
     Config("empty", Settings(Unset, MaxEvents, Unset, <<>>),
            [k \in {} |-> Tick], NoScenarios, StdoutOnly),
     Config("idle", Settings(Unset, MaxEvents, Unset, <<>>),
            [k \in {} |-> Tick], [welcome |-> Welcome, onboard |-> Onboard], StdoutOnly)}

---------------------------------------------------------------------------
\* orchestrator.py: the random draws of the scheduler.

\* random.uniform(a, b) of the three schedulers, in whole seconds
InitialDelayMin == 0
InitialDelayMax == 60
AdditionalDelayMin == 10
AdditionalDelayMax == 300
StepDelayMin == 5
StepDelayMax == 30

\* a clock that stands still: every delay is 0
NoDelay(lo, hi) == <<0>>

\* The delays a draw of random.uniform(lo, hi) is taken from: the two ends
DelayOptions(lo, hi) == <<lo, hi>>

\* list(d.keys()) of a dict kept as a function: its keys in a fixed order
KeyList(d) ==
    CHOOSE q \in [1..Cardinality(DOMAIN d) -> DOMAIN d] :
        \A i, j \in DOMAIN q : i # j => q[i] # q[j]

\* The seeded random module is a stream fixed by the seed.  The first run
\* under a seed draws freely and the draws are kept; a re-run under the same
\* seed meets the same stream: at each position the same raw draw, reduced to
\* the options in hand.  Without a seed nothing is kept.
SameDraw(d, t) == d.i = ((t.i - 1) % d.n) + 1

Seeded(draws) ==
    IF cfg.simulation_settings.random_seed = Unset
    THEN UNCHANGED <<tape, rng_pos>>
    ELSE /\ rng_pos' = rng_pos + Len(draws)
         /\ IF run_no = 1
            THEN tape' = tape \o draws
            ELSE /\ tape' = tape
                 /\ \A k \in DOMAIN draws :
                        rng_pos + k <= Len(tape) => SameDraw(draws[k], tape[rng_pos + k])

\* Orchestrator._initialize_entity_state_attributes: the state the attribute
\* definitions give an entity with this data (already set keys are kept)
RECURSIVE InitialState(_, _, _, _)
InitialState(attrs, data, state, i) ==
    IF i > Len(attrs) THEN state
    ELSE LET a == attrs[i]
             next ==
                IF "from_field" \in DOMAIN a.def
                THEN IF a.def.from_field \in DOMAIN data
                     THEN DictSet(state, a.name, data[a.def.from_field])
                     ELSE state
                ELSE IF "default" \in DOMAIN a.def /\ a.def.default # None
                     THEN DictSet(state, a.name, a.def.default)
                     ELSE state
         IN InitialState(attrs, data, next, i + 1)

initialize_entity_state_attributes(c, dd, entity_type, entity) ==
    IF entity_type \notin DOMAIN c.entities THEN entity
    ELSE [entity EXCEPT !.state =
              InitialState(c.entities[entity_type].state_attributes, dd[entity.data],
                           entity.state, 1)]

\* create_entity followed by _initialize_entity_state_attributes, as the
\* orchestrator always pairs them: [st, entity]
CreateAndInit(c, st, dd, entity_type, data, uuid) ==
    LET e == initialize_entity_state_attributes(
                 c, dd, entity_type,
                 NewEntity(dd, entity_type, data, c.entities[entity_type].primary_key, uuid))
    IN [st |-> PutEntity(st, e), entity |-> e]

\* The entity types _create_initial_entities is asked for, one entry per
\* entity to create; a type without definition or schema creates nothing
RECURSIVE InitialTypes(_, _, _)
InitialTypes(c, counts, i) ==
    IF i > Len(counts) THEN <<>>
    ELSE LET t == counts[i].entity_type
             usable == /\ t \in DOMAIN c.entities
                       /\ c.entities[t].schema \in DOMAIN c.schemas
         IN (IF usable THEN [k \in 1..counts[i].count |-> t] ELSE <<>>)
            \o InitialTypes(c, counts, i + 1)

\* Orchestrator._create_initial_entities over all the counts: the outcomes
\* [ok, st, dd, uuids, draws]
RECURSIVE CreateInitial(_, _, _, _, _, _, _, _)
CreateInitial(c, types, i, st, dd, reg, uuids, draws) ==
    IF i > Len(types)
    THEN {[ok |-> TRUE, st |-> st, dd |-> dd, uuids |-> uuids, draws |-> draws]}
    ELSE UNION {
        IF o.ok /\ "obj" \in DOMAIN o.v
        THEN LET dd2 == Append(dd, o.v.obj)
                 made == CreateAndInit(c, st, dd2, types[i], Len(dd2), uuids + o.uuids + 1)
             IN CreateInitial(c, types, i + 1, made.st, dd2, reg,
                              uuids + o.uuids + 1, draws \o o.draws)
        ELSE {[ok |-> FALSE, st |-> st, dd |-> dd, uuids |-> uuids + o.uuids,
               draws |-> draws \o o.draws]}
        : o \in generate(reg[c.entities[types[i]].schema],
                         [simulation_time |-> simulation_time, entity |-> EmptyDict,
                          consumed_entities |-> <<>>, values |-> EmptyDict],
                         st, dd, reg, uuids)}

\* The weights of the named event types (frequency_weight, default 1)
FrequencyWeights(c, names) ==
    [i \in DOMAIN names |->
        IF "frequency_weight" \in DOMAIN c.event_types[names[i]]
        THEN c.event_types[names[i]].frequency_weight ELSE 1]

\* The loop shared by _schedule_initial_events and
\* _schedule_additional_events: count times, an event type drawn by weight
\* and a delay drawn from the interval, pushed at now + delay.  Outcomes
\* [ok, heap, draws]; random.choices raises when the weights sum to zero.
RECURSIVE PushAll(_, _, _, _, _, _)
PushAll(heap, picks, i, now, origin, draws) ==
    IF i > Len(picks) THEN [ok |-> TRUE, heap |-> heap, draws |-> draws]
    ELSE PushAll(heappush(heap, ScheduledEvent(picks[i].t.v, now + picks[i].d.v,
                                               NoContext, origin)),
                 picks, i + 1, now, origin, draws \o picks[i].t.d \o picks[i].d.d)

\* A batch loop without the test for an empty list of names
ScheduleBatchUnguarded(heap, names, weights, delays, now, origin, count) ==
    IF SumWeights(weights, 1) = 0
    THEN {[ok |-> FALSE, heap |-> heap, draws |-> <<>>]}
    ELSE {PushAll(heap, picks, 1, now, origin, <<>>) :
            picks \in [1..count -> [t : WeightedOptions(names, weights),
                                    d : DrawFrom(delays)]]}

ScheduleBatch(heap, names, weights, delays, now, origin, count) ==
    IF names = <<>> THEN {[ok |-> TRUE, heap |-> heap, draws |-> <<>>]}
    ELSE IF SumWeights(weights, 1) = 0
         THEN {[ok |-> FALSE, heap |-> heap, draws |-> <<>>]}
         ELSE {PushAll(heap, picks, 1, now, origin, <<>>) :
                 picks \in [1..count -> [t : WeightedOptions(names, weights),
                                         d : DrawFrom(delays)]]}

---------------------------------------------------------------------------
\* orchestrator.py: scenarios.

\* ScenarioInstance(scenario_name, context); sid numbers the objects
ScenarioInstance(sid, scenario_name, entity_context) ==
    [sid |-> sid, scenario_name |-> scenario_name, entities |-> entity_context,
     current_step |-> 0, completed |-> FALSE, entity_aliases |-> <<>>]

\* A requirement loop that never abandons and binds nothing
BindNothing(st, dd, reqs, i, bound) ==
    [ok |-> TRUE, can_start |-> TRUE, entities |-> bound]

\* The requirement loop of _initialize_scenarios: [ok, can_start, entities],
\* the first match of each requirement bound to its alias; stops at the
\* first requirement without a match; ok is FALSE when a filter raises
RECURSIVE BindRequirements(_, _, _, _, _)
BindRequirements(st, dd, reqs, i, bound) ==
    IF i > Len(reqs) THEN [ok |-> TRUE, can_start |-> TRUE, entities |-> bound]
    ELSE LET Then(r) ==
                 IF ~r.ok THEN [ok |-> FALSE, can_start |-> FALSE, entities |-> bound]
                 ELSE IF r.v = <<>>
                      THEN [ok |-> TRUE, can_start |-> FALSE, entities |-> bound]
                      ELSE BindRequirements(st, dd, reqs, i + 1,
                               Append(bound, [alias |-> reqs[i].alias,
                                              entity_type |-> r.v[1].entity_type,
                                              id |-> r.v[1].id]))
         IN Then(find_entities(st, dd, reqs[i].name,
                               IF "selection_filter" \in DOMAIN reqs[i]
                               THEN reqs[i].selection_filter ELSE <<>>))

\* Orchestrator._schedule_scenario_step for the instance at position at of
\* active: the outcomes [active, heap, draws].  Without steps, or past the
\* last step, the instance is marked completed and nothing is pushed;
\* otherwise the current step is pushed after a drawn delay and current_step
\* advances.
schedule_scenario_step(c, active, at, heap, now) ==
    LET scenario == active[at]
        known == /\ scenario.scenario_name \in DOMAIN c.scenarios
                 /\ "steps" \in DOMAIN c.scenarios[scenario.scenario_name]
        steps == c.scenarios[scenario.scenario_name].steps
    IN IF ~known \/ scenario.current_step >= Len(steps)
       THEN {[active |-> [active EXCEPT ![at].completed = TRUE], heap |-> heap,
              draws |-> <<>>]}
       ELSE LET step == steps[scenario.current_step + 1]
                context == [scenario_instance |-> scenario.sid,
                            step |-> scenario.current_step,
                            entities |-> scenario.entities,
                            has_overrides |-> "payload_overrides" \in DOMAIN step,
                            payload_overrides |->
                                IF "payload_overrides" \in DOMAIN step
                                THEN step.payload_overrides ELSE <<>>]
            IN {[active |-> [active EXCEPT ![at].current_step = @ + 1],
                 heap |-> heappush(heap, ScheduledEvent(step.event_type, now + d.v,
                                                        context, "scenario")),
                 draws |-> d.d]
                : d \in DrawFrom(DelayOptions(StepDelayMin, StepDelayMax))}

\* The weights of the named scenarios (initiation_weight, default 1)
InitiationWeights(c, names) ==
    [i \in DOMAIN names |->
        IF "initiation_weight" \in DOMAIN c.scenarios[names[i]]
        THEN c.scenarios[names[i]].initiation_weight ELSE 1]

\* Orchestrator._initialize_scenarios: tries times, a scenario drawn by
\* weight, started when every requirement has a match.  Outcomes
\* [ok, active, heap, sid, draws].
RECURSIVE initialize_scenarios(_, _, _, _, _, _, _, _, _)
initialize_scenarios(c, st, dd, active, heap, now, sid, draws, tries) ==
    IF tries = 0 \/ DOMAIN c.scenarios = {}
    THEN {[ok |-> TRUE, active |-> active, heap |-> heap, sid |-> sid, draws |-> draws]}
    ELSE LET names == KeyList(c.scenarios)
             weights == InitiationWeights(c, names)
         IN IF SumWeights(weights, 1) = 0
            THEN {[ok |-> FALSE, active |-> active, heap |-> heap, sid |-> sid,
                   draws |-> draws]}
            ELSE UNION {
                LET def == c.scenarios[pick.v]
                    Start(b) ==
                        IF ~b.ok
                        THEN {[ok |-> FALSE, active |-> active, heap |-> heap, sid |-> sid,
                               draws |-> draws \o pick.d]}
                        ELSE IF ~b.can_start
                             THEN initialize_scenarios(c, st, dd, active, heap, now, sid,
                                                       draws \o pick.d, tries - 1)
                             ELSE UNION {
                                 initialize_scenarios(c, st, dd, s.active, s.heap, now,
                                                      sid + 1, draws \o pick.d \o s.draws,
                                                      tries - 1)
                                 : s \in schedule_scenario_step(
                                             c, Append(active,
                                                       ScenarioInstance(sid + 1, pick.v,
                                                                        b.entities)),
                                             Len(active) + 1, heap, now)}
                IN Start(BindRequirements(st, dd,
                             IF "requires_initial_entities" \in DOMAIN def
                             THEN def.requires_initial_entities ELSE <<>>, 1, <<>>))
                : pick \in WeightedOptions(names, weights)}

\* The removal loop of _process_scenarios
RECURSIVE DropCompleted(_, _)
DropCompleted(active, i) ==
    IF i > Len(active) THEN <<>>
    ELSE (IF active[i].completed THEN <<>> ELSE <<active[i]>>)
         \o DropCompleted(active, i + 1)

\* Orchestrator._process_scenarios
process_scenarios(c, st, dd, active, heap, now, sid) ==
    LET kept == DropCompleted(active, 1)
    IN IF Len(kept) < ScenarioSlots
       THEN initialize_scenarios(c, st, dd, kept, heap, now, sid, <<>>, ScenarioSlots)
       ELSE {[ok |-> TRUE, active |-> kept, heap |-> heap, sid |-> sid, draws |-> <<>>]}

---------------------------------------------------------------------------
\* orchestrator.py: feasibility and replenishment.

\* Orchestrator._can_generate_event: Ok(TRUE/FALSE), or the exception of a
\* filter that raises
RECURSIVE EnoughFor(_, _, _, _)
EnoughFor(st, dd, consumes, i) ==
    IF i > Len(consumes) THEN Ok(TRUE)
    ELSE LET min_required == IF "min_required" \in DOMAIN consumes[i]
                             THEN consumes[i].min_required ELSE 1
             Then(n) == IF ~n.ok THEN n
                        ELSE IF n.v < min_required THEN Ok(FALSE)
                             ELSE EnoughFor(st, dd, consumes, i + 1)
         IN Then(count_entities(st, dd, consumes[i].name,
                                IF "selection_filter" \in DOMAIN consumes[i]
                                THEN consumes[i].selection_filter ELSE <<>>))

can_generate_event(c, st, dd, event_type) ==
    IF event_type \notin DOMAIN c.event_types THEN Ok(FALSE)
    ELSE IF "consumes_entities" \in DOMAIN c.event_types[event_type]
         THEN EnoughFor(st, dd, c.event_types[event_type].consumes_entities, 1)
         ELSE Ok(TRUE)

\* A selection that keeps every event type
KeepAllEvents(c, st, dd, names, i, acc) == [ok |-> TRUE, names |-> names]

\* The event types _schedule_additional_events keeps, in the order of the
\* configuration: [ok, names]
RECURSIVE ValidEvents(_, _, _, _, _, _)
ValidEvents(c, st, dd, names, i, acc) ==
    IF i > Len(names) THEN [ok |-> TRUE, names |-> acc]
    ELSE LET Then(r) == IF ~r.ok THEN [ok |-> FALSE, names |-> acc]
                        ELSE ValidEvents(c, st, dd, names, i + 1,
                                         IF r.v THEN Append(acc, names[i]) ELSE acc)
         IN Then(can_generate_event(c, st, dd, names[i]))

\* Orchestrator._schedule_initial_events
schedule_initial_events(c, heap, now) ==
    LET names == KeyList(c.event_types)
    IN ScheduleBatch(heap, names, FrequencyWeights(c, names),
                     DelayOptions(InitialDelayMin, InitialDelayMax), now, "initial",
                     BatchSize)

\* Orchestrator._schedule_additional_events
schedule_additional_events(c, st, dd, heap, now) ==
    LET Schedule(valid) ==
            IF ~valid.ok THEN {[ok |-> FALSE, heap |-> heap, draws |-> <<>>]}
            ELSE ScheduleBatch(heap, valid.names, FrequencyWeights(c, valid.names),
                               DelayOptions(AdditionalDelayMin, AdditionalDelayMax), now,
                               "additional", BatchSize)
    IN Schedule(ValidEvents(c, st, dd, KeyList(c.event_types), 1, <<>>))

---------------------------------------------------------------------------
\* orchestrator.py: _generate_event, in the order of its effects.

\* d[key] = value on a dict kept as a sequence of [alias, entities] entries
SetConsumed(consumed, alias, es) ==
    IF \E k \in DOMAIN consumed : consumed[k].alias = alias
    THEN [k \in DOMAIN consumed |->
             IF consumed[k].alias = alias THEN [alias |-> alias, entities |-> es]
             ELSE consumed[k]]
    ELSE Append(consumed, [alias |-> alias, entities |-> es])

\* A consumption loop that looks entities up by type alone, the selection
\* filter dropped
RECURSIVE ConsumeUnfiltered(_, _, _, _, _, _)
ConsumeUnfiltered(st, dd, consumes, i, consumed, entity) ==
    IF i > Len(consumes)
    THEN [outcome |-> "ok", consumed |-> consumed, entity |-> entity]
    ELSE LET found == get_all_entities(st, consumes[i].name)
         IN IF found = <<>>
            THEN [outcome |-> "skip", consumed |-> consumed, entity |-> entity]
            ELSE ConsumeUnfiltered(st, dd, consumes, i + 1,
                                   SetConsumed(consumed, consumes[i].alias, <<found[1]>>),
                                   DictSet(entity, consumes[i].alias, [one |-> found[1]]))

\* The consumes_entities loop: [outcome, consumed, entity].  outcome is
\* "ok", "skip" (fewer than min_required matches: return None) or "raise".
\* Each alias gets entities[:min_required]; the context gets the first
\* entity when min_required is 1 and the list otherwise.
RECURSIVE Consume(_, _, _, _, _, _)
Consume(st, dd, consumes, i, consumed, entity) ==
    IF i > Len(consumes)
    THEN [outcome |-> "ok", consumed |-> consumed, entity |-> entity]
    ELSE LET min_required == IF "min_required" \in DOMAIN consumes[i]
                             THEN consumes[i].min_required ELSE 1
             Then(found) ==
                 IF ~found.ok
                 THEN [outcome |-> "raise", consumed |-> consumed, entity |-> entity]
                 ELSE IF Len(found.v) < min_required
                      THEN [outcome |-> "skip", consumed |-> consumed, entity |-> entity]
                      ELSE LET taken == SubSeq(found.v, 1, min_required)
                           IN Consume(st, dd, consumes, i + 1,
                                      SetConsumed(consumed, consumes[i].alias, taken),
                                      DictSet(entity, consumes[i].alias,
                                              IF min_required = 1 THEN [one |-> found.v[1]]
                                              ELSE [many |-> taken]))
         IN Then(find_entities(st, dd, consumes[i].name,
                               IF "selection_filter" \in DOMAIN consumes[i]
                               THEN consumes[i].selection_filter ELSE <<>>))

\* The override loop of _generate_event: for each override whose key is a
\* property of the schema, schema["properties"][key]["value"] = value.  The
\* schema is the registry's own dict, so this is the registry's new entry.
RECURSIVE ApplyOverrides(_, _, _)
ApplyOverrides(schema, overrides, i) ==
    IF i > Len(overrides) THEN schema
    ELSE LET o == overrides[i]
             hit == /\ "properties" \in DOMAIN schema
                    /\ \E k \in DOMAIN schema.properties : schema.properties[k].name = o.key
         IN ApplyOverrides(
                IF hit
                THEN [schema EXCEPT !.properties =
                         [k \in DOMAIN schema.properties |->
                             IF schema.properties[k].name = o.key
                             THEN [schema.properties[k] EXCEPT
                                      !.schema = DictSet(@, "value", o.value)]
                             ELSE schema.properties[k]]]
                ELSE schema,
                overrides, i + 1)

\* no event in hand
NoEvent ==
    [event_type |-> "", scheduled_time |-> 0, context |-> NoContext, origin |-> "",
     entity |-> EmptyDict, consumed |-> <<>>, payload |-> 0, upd |-> 1,
     feasible |-> FALSE]

\* The step that follows payload generation, production and production-or-
\* update for an event type: the next effect its definition has
AfterProduceOrUpdate(def) ==
    IF "updates_entity_state" \in DOMAIN def /\ def.updates_entity_state # <<>>
    THEN "update_state" ELSE "emit"

AfterProduce(def) ==
    IF "produces_or_updates_entity" \in DOMAIN def THEN "produce_or_update"
    ELSE AfterProduceOrUpdate(def)

\* The state updates taken before the entity is produced
UpdateBeforeProduce(def) ==
    IF "updates_entity_state" \in DOMAIN def /\ def.updates_entity_state # <<>>
    THEN "update_state"
    ELSE IF "produces_entity" \in DOMAIN def THEN "produce" ELSE AfterProduce(def)

AfterGenerate(def) ==
    IF "produces_entity" \in DOMAIN def THEN "produce" ELSE AfterProduce(def)

\* The value of a set or increment attribute: a literal, or the payload
\* field a {from_payload_field: path} names (_get_nested_value)
RECURSIVE Resolved(_, _, _)
Resolved(attrs, payload, i) ==
    IF i > Len(attrs) THEN <<>>
    ELSE <<[key |-> attrs[i].key,
            value |-> IF "from_payload_field" \in DOMAIN attrs[i].value
                      THEN WalkPath(Obj(payload), attrs[i].value.from_payload_field, 1)
                      ELSE attrs[i].value]>>
         \o Resolved(attrs, payload, i + 1)

\* The entity an updates_entity_state entry names: the context's
\* entity_<alias> first, then the first consumed entity of that alias; None
\* when neither is there
RECURSIVE ConsumedAs(_, _, _)
ConsumedAs(consumed, alias, i) ==
    IF i > Len(consumed) THEN None
    ELSE IF consumed[i].alias = alias
         THEN (IF consumed[i].entities = <<>> THEN None
               ELSE [one |-> consumed[i].entities[1]])
         ELSE ConsumedAs(consumed, alias, i + 1)

EntityForUpdate(event, alias) ==
    IF alias \in DOMAIN event.entity THEN event.entity[alias]
    ELSE ConsumedAs(event.consumed, alias, 1)

---------------------------------------------------------------------------
\* The state machine: Orchestrator.__init__, initialize() and run().

\* The state Orchestrator.__init__ leaves for a configuration
Constructed(c) ==
    /\ cfg = c
    /\ pc = "initialize"
    /\ simulation_time = 0
    /\ event_queue = <<>>
    /\ active_scenarios = <<>>
    /\ entities = EmptyDict
    /\ dicts = <<>>
    /\ schema_registry = c.schemas
    /\ event_count = 0
    /\ cur = NoEvent
    /\ emitted = <<>>
    /\ halt = ""
    /\ next_sid = 0
    /\ rng_pos = 0
    /\ trace = [op |-> "init"]

Init ==
    /\ \E c \in Configs : Constructed(c)
    /\ entropy = 0
    /\ tape = <<>>
    /\ run_no = 1
    /\ first_run = <<>>

\* An exception leaves run(): run_command logs it and exits with status 1
Raised == pc' = "crashed" /\ halt' = "error"

\* initialize(): the _create_initial_entities loop
CreateInitialEntities ==
    /\ pc = "initialize"
    /\ \E o \in CreateInitial(cfg, InitialTypes(cfg, cfg.simulation_settings.initial_entity_counts, 1),
                              1, entities, dicts, schema_registry, entropy, <<>>) :
          /\ entities' = o.st
          /\ dicts' = o.dd
          /\ entropy' = o.uuids
          /\ Seeded(o.draws)
          /\ IF o.ok THEN pc' = "prime" /\ halt' = halt ELSE Raised
    /\ trace' = [op |-> "create_initial_entities"]
    /\ UNCHANGED <<cfg, simulation_time, event_queue, active_scenarios, schema_registry,
                   event_count, cur, emitted, run_no, first_run, next_sid>>

\* initialize(): _schedule_initial_events
ScheduleInitialEvents ==
    /\ pc = "prime"
    /\ \E o \in schedule_initial_events(cfg, event_queue, simulation_time) :
          /\ event_queue' = o.heap
          /\ Seeded(o.draws)
          /\ IF o.ok THEN pc' = "start_scenarios" /\ halt' = halt ELSE Raised
    /\ trace' = [op |-> "schedule_initial_events"]
    /\ UNCHANGED <<cfg, simulation_time, active_scenarios, entities, dicts,
                   schema_registry, event_count, cur, emitted, entropy, run_no,
                   first_run, next_sid>>

\* initialize(): _initialize_scenarios
InitializeScenarios ==
    /\ pc = "start_scenarios"
    /\ \E o \in initialize_scenarios(cfg, entities, dicts, active_scenarios, event_queue,
                                     simulation_time, next_sid, <<>>, ScenarioSlots) :
          /\ active_scenarios' = o.active
          /\ event_queue' = o.heap
          /\ next_sid' = o.sid
          /\ Seeded(o.draws)
          /\ IF o.ok THEN pc' = "loop" /\ halt' = halt ELSE Raised
    /\ trace' = [op |-> "initialize_scenarios"]
    /\ UNCHANGED <<cfg, simulation_time, entities, dicts, schema_registry, event_count,
                   cur, emitted, entropy, run_no, first_run>>

\* run(): the termination tests at the head of the loop
DurationReached ==
    /\ cfg.simulation_settings.duration # Unset
    /\ simulation_time - 0 >= cfg.simulation_settings.duration

TotalReached ==
    /\ cfg.simulation_settings.total_events # Unset
    /\ event_count >= cfg.simulation_settings.total_events

Stop(why) ==
    /\ pc' = "done"
    /\ halt' = why
    /\ trace' = [op |-> "stop"]
    /\ UNCHANGED <<cfg, simulation_time, event_queue, active_scenarios, entities, dicts,
                   schema_registry, event_count, cur, emitted, entropy, tape, rng_pos,
                   run_no, first_run, next_sid>>

StopOnDuration == pc = "loop" /\ DurationReached /\ Stop("duration")

StopOnTotal == pc = "loop" /\ ~DurationReached /\ TotalReached /\ Stop("total")

\* run(): the queue is empty at the head of the loop: one replenishment, and
\* the loop ends if the queue is still empty
RefillEmptyQueue ==
    /\ pc = "loop" /\ ~DurationReached /\ ~TotalReached
    /\ event_queue = <<>>
    /\ \E o \in schedule_additional_events(cfg, entities, dicts, event_queue,
                                           simulation_time) :
          /\ event_queue' = o.heap
          /\ Seeded(o.draws)
          /\ IF ~o.ok THEN Raised
             ELSE IF o.heap = <<>> THEN pc' = "done" /\ halt' = "empty"
                  ELSE pc' = "pop" /\ halt' = halt
    /\ trace' = [op |-> "refill"]
    /\ UNCHANGED <<cfg, simulation_time, active_scenarios, entities, dicts,
                   schema_registry, event_count, cur, emitted, entropy, run_no,
                   first_run, next_sid>>

\* run(): nothing ends the loop and the queue has entries
Continue ==
    /\ pc = "loop" /\ ~DurationReached /\ ~TotalReached
    /\ event_queue # <<>>
    /\ pc' = "pop"
    /\ trace' = [op |-> "continue"]
    /\ UNCHANGED <<cfg, simulation_time, event_queue, active_scenarios, entities, dicts,
                   schema_registry, event_count, cur, emitted, halt, entropy, tape,
                   rng_pos, run_no, first_run, next_sid>>

\* run(): heappop and the advance of simulation_time
PopNext ==
    /\ pc = "pop"
    /\ LET popped == heappop(event_queue)
       IN /\ event_queue' = popped.heap
          /\ simulation_time' = popped.item.scheduled_time
          /\ cur' = [NoEvent EXCEPT !.event_type = popped.item.event_type,
                                    !.scheduled_time = popped.item.scheduled_time,
                                    !.context = popped.item.context,
                                    !.origin = popped.item.origin]
    /\ pc' = "generate"
    /\ trace' = [op |-> "pop"]
    /\ UNCHANGED <<cfg, active_scenarios, entities, dicts, schema_registry, event_count,
                   emitted, halt, entropy, tape, rng_pos, run_no, first_run, next_sid>>

\* _generate_event up to the payload: [outcome, ...] for the event in hand.
\* "skip" is a return of None: unknown event type, too few entities, or a
\* payload schema the registry lacks.
GenerateOutcomes ==
    IF cur.event_type \notin DOMAIN cfg.event_types
    THEN {[outcome |-> "skip", why |-> "unknown event type"]}
    ELSE LET def == cfg.event_types[cur.event_type]
             bound == Consume(entities, dicts,
                              IF "consumes_entities" \in DOMAIN def
                              THEN def.consumes_entities ELSE <<>>, 1, <<>>, EmptyDict)
         IN IF bound.outcome = "raise" THEN {[outcome |-> "raise", why |-> "filter"]}
            ELSE IF bound.outcome = "skip"
                 THEN {[outcome |-> "skip", why |-> "infeasible"]}
                 ELSE IF def.payload_schema \notin DOMAIN schema_registry
                      THEN {[outcome |-> "skip", why |-> "schema not found"]}
                      ELSE LET schema ==
                                  IF cur.context.has_overrides
                                  THEN ApplyOverrides(schema_registry[def.payload_schema],
                                                      cur.context.payload_overrides, 1)
                                  ELSE schema_registry[def.payload_schema]
                               reg == [schema_registry EXCEPT ![def.payload_schema] = schema]
                               context == [simulation_time |-> simulation_time,
                                           entity |-> bound.entity,
                                           consumed_entities |-> bound.consumed,
                                           values |-> EmptyDict]
                           IN {[outcome |-> IF o.ok /\ "obj" \in DOMAIN o.v
                                            THEN "ok" ELSE "raise",
                                why |-> "payload", reg |-> reg, bound |-> bound,
                                gen |-> o]
                               : o \in generate(schema, context, entities, dicts, reg,
                                                entropy)}

GenerateEvent ==
    /\ pc = "generate"
    /\ \E g \in GenerateOutcomes :
          /\ trace' = [op |-> "generate", outcome |-> g.outcome, why |-> g.why]
          /\ IF g.why # "payload"
             THEN /\ IF g.outcome = "raise" THEN Raised
                     ELSE pc' = "scenarios" /\ halt' = halt
                  /\ UNCHANGED <<dicts, schema_registry, cur, entropy, tape, rng_pos>>
             ELSE /\ schema_registry' = g.reg
                  /\ entropy' = entropy + g.gen.uuids
                  /\ Seeded(g.gen.draws)
                  /\ IF g.outcome = "raise"
                     THEN Raised /\ UNCHANGED <<dicts, cur>>
                     ELSE /\ dicts' = Append(dicts, g.gen.v.obj)
                          /\ cur' = [cur EXCEPT
                                 !.entity = g.bound.entity,
                                 !.consumed = g.bound.consumed,
                                 !.payload = Len(dicts) + 1,
                                 !.feasible = can_generate_event(cfg, entities, dicts,
                                                                 cur.event_type) = Ok(TRUE)]
                          /\ pc' = AfterGenerate(cfg.event_types[cur.event_type])
                          /\ halt' = halt
    /\ UNCHANGED <<cfg, simulation_time, event_queue, active_scenarios, entities,
                   event_count, emitted, run_no, first_run, next_sid>>

\* _generate_event: produces_entity
ProducesEntity ==
    /\ pc = "produce"
    /\ LET def == cfg.event_types[cur.event_type]
           entity_type == def.produces_entity
       IN /\ IF entity_type \in DOMAIN cfg.entities
             THEN LET made == CreateAndInit(cfg, entities, dicts, entity_type,
                                            cur.payload, entropy + 1)
                  IN /\ entities' = made.st
                     /\ entropy' = entropy + 1
                     /\ cur' = [cur EXCEPT !.entity =
                                   DictSet(@, entity_type, [one |-> made.entity])]
             ELSE UNCHANGED <<entities, entropy, cur>>
          /\ pc' = AfterProduce(def)
    /\ trace' = [op |-> "produces_entity"]
    /\ UNCHANGED <<cfg, simulation_time, event_queue, active_scenarios, dicts,
                   schema_registry, event_count, emitted, halt, tape, rng_pos, run_no,
                   first_run, next_sid>>

\* random.random() < update_existing_probability: the draw falls below it
\* (option 1) or not (option 2)
UpdateDraws(def) ==
    LET p == IF "update_existing_probability" \in DOMAIN def
             THEN def.update_existing_probability ELSE 50
    IN (IF p > 0 THEN {[update |-> TRUE, d |-> <<[i |-> 1, n |-> 2]>>]} ELSE {}) \cup
       (IF p < 100 THEN {[update |-> FALSE, d |-> <<[i |-> 2, n |-> 2]>>]} ELSE {})

\* _generate_event: produces_or_updates_entity.  The update branch merges
\* the payload into a randomly chosen entity of the type; with no entity of
\* the type, or in the other branch, an entity is created from the payload.
ProducesOrUpdatesEntity ==
    /\ pc = "produce_or_update"
    /\ LET def == cfg.event_types[cur.event_type]
           entity_type == def.produces_or_updates_entity
           existing == get_all_entities(entities, entity_type)
       IN /\ \E u \in UpdateDraws(def) :
                IF u.update /\ existing # <<>>
                THEN \E e \in DrawFrom(existing) :
                        /\ dicts' = update_entity(entities, dicts, entity_type, e.v.id,
                                                  dicts[cur.payload])
                        /\ cur' = [cur EXCEPT !.entity =
                                      DictSet(@, entity_type, [one |-> e.v])]
                        /\ Seeded(u.d \o e.d)
                        /\ trace' = [op |-> "produces_or_updates_entity",
                                     update_existing |-> u.update,
                                     branch |-> "update", id |-> e.v.id]
                        /\ UNCHANGED <<entities, entropy>>
                ELSE /\ Seeded(u.d)
                     /\ trace' = [op |-> "produces_or_updates_entity",
                                  update_existing |-> u.update,
                                  branch |-> "create", id |-> None]
                     /\ IF entity_type \in DOMAIN cfg.entities
                        THEN LET made == CreateAndInit(cfg, entities, dicts, entity_type,
                                                       cur.payload, entropy + 1)
                             IN /\ entities' = made.st
                                /\ entropy' = entropy + 1
                                /\ cur' = [cur EXCEPT !.entity =
                                              DictSet(@, entity_type, [one |-> made.entity])]
                        ELSE UNCHANGED <<entities, entropy, cur>>
                     /\ UNCHANGED dicts
          /\ pc' = AfterProduceOrUpdate(def)
    /\ UNCHANGED <<cfg, simulation_time, event_queue, active_scenarios, schema_registry,
                   event_count, emitted, halt, run_no, first_run, next_sid>>

\* _generate_event: one turn of the updates_entity_state loop, the entry
\* cur.upd.  An alias nothing is bound to is skipped with a warning; a
\* context entry that is a list has no entity_type: AttributeError.
UpdatesEntityState ==
    /\ pc = "update_state"
    /\ LET def == cfg.event_types[cur.event_type]
           update == def.updates_entity_state[cur.upd]
           target == EntityForUpdate(cur, update.entity_alias)
           sets == Resolved(IF "set_attributes" \in DOMAIN update
                            THEN update.set_attributes ELSE <<>>, dicts[cur.payload], 1)
           incs == Resolved(IF "increment_attributes" \in DOMAIN update
                            THEN update.increment_attributes ELSE <<>>,
                            dicts[cur.payload], 1)
           last == cur.upd = Len(def.updates_entity_state)
       IN IF target = None
          THEN /\ trace' = [op |-> "update_entity_state", called |-> FALSE]
               /\ pc' = IF last THEN "emit" ELSE pc
               /\ halt' = halt
               /\ entities' = entities
          ELSE IF "many" \in DOMAIN target
               THEN /\ trace' = [op |-> "update_entity_state", called |-> FALSE]
                    /\ Raised
                    /\ entities' = entities
               ELSE LET r == update_entity_state(entities, target.one.entity_type,
                                                 target.one.id, sets, incs)
                        before == get_entity(entities, target.one.entity_type, target.one.id)
                        after == get_entity(r.st, target.one.entity_type, target.one.id)
                    IN /\ entities' = r.st
                       /\ trace' = [op |-> "update_entity_state", called |-> TRUE,
                                    found |-> r.found, returned |-> r.ok,
                                    sets |-> sets, incs |-> incs,
                                    before |-> before, after |-> after]
                       /\ IF r.ok THEN pc' = (IF last THEN "emit" ELSE pc) /\ halt' = halt
                          ELSE Raised
    /\ cur' = [cur EXCEPT !.upd = @ + 1]
    /\ UNCHANGED <<cfg, simulation_time, event_queue, active_scenarios, dicts,
                   schema_registry, event_count, emitted, entropy, tape, rng_pos, run_no,
                   first_run, next_sid>>

\* Event(event_type, payload, self.simulation_time) as the sinks serialise
\* it; h is history: the scheduled event it came from and whether
\* _can_generate_event held when it was generated
Event(event, payload, timestamp) ==
    [event_type |-> event.event_type, payload |-> payload, timestamp |-> timestamp,
     h |-> [origin |-> event.origin, context |-> event.context,
            feasible |-> event.feasible, raised |-> <<>>, received |-> <<>>]]

\* _emit_event when no handler's exception is caught: the first one that
\* raises ends the loop over the handlers and the exception leaves
EmitUncaught(handlers) ==
    {[raised |-> r,
      received |-> [k \in DOMAIN handlers |-> \A j \in 1..k : ~r[j]],
      propagated |-> \E k \in DOMAIN handlers : r[k]]
     : r \in {f \in [DOMAIN handlers -> BOOLEAN] :
                \A k \in DOMAIN handlers : f[k] => handlers[k].type = "file"}}

\* _emit_event: handler.emit_event(event) for every handler in turn, each in
\* its own try/except.  A file handler's write can raise (OSError); stdout
\* does not.  Outcomes: per handler whether it raised and whether it
\* received the event, and whether an exception leaves _emit_event.
emit_event(handlers) ==
    {[raised |-> r,
      received |-> [k \in DOMAIN handlers |-> ~r[k]],
      propagated |-> FALSE]
     : r \in {f \in [DOMAIN handlers -> BOOLEAN] :
                \A k \in DOMAIN handlers : f[k] => handlers[k].type = "file"}}

\* run(): _emit_event and the count
EmitEvent ==
    /\ pc = "emit"
    /\ \E o \in emit_event(cfg.outputs) :
          /\ emitted' = Append(emitted,
                               [Event(cur, dicts[cur.payload], simulation_time) EXCEPT
                                   !.h.raised = o.raised, !.h.received = o.received])
          /\ IF o.propagated
             THEN Raised /\ UNCHANGED event_count
             ELSE /\ event_count' = event_count + 1
                  /\ pc' = "scenarios"
                  /\ halt' = halt
    /\ trace' = [op |-> "emit"]
    /\ UNCHANGED <<cfg, simulation_time, event_queue, active_scenarios, entities, dicts,
                   schema_registry, cur, entropy, tape, rng_pos, run_no, first_run,
                   next_sid>>

\* run(): _process_scenarios
ProcessScenarios ==
    /\ pc = "scenarios"
    /\ \E o \in process_scenarios(cfg, entities, dicts, active_scenarios, event_queue,
                                  simulation_time, next_sid) :
          /\ active_scenarios' = o.active
          /\ event_queue' = o.heap
          /\ next_sid' = o.sid
          /\ Seeded(o.draws)
          /\ IF o.ok THEN pc' = "replenish" /\ halt' = halt ELSE Raised
    /\ trace' = [op |-> "process_scenarios"]
    /\ UNCHANGED <<cfg, simulation_time, entities, dicts, schema_registry, event_count,
                   cur, emitted, entropy, run_no, first_run>>

\* run(): the replenishment that ends an iteration
Replenish ==
    /\ pc = "replenish"
    /\ IF Len(event_queue) < QueueLowWater
       THEN \E o \in schedule_additional_events(cfg, entities, dicts, event_queue,
                                                simulation_time) :
               /\ event_queue' = o.heap
               /\ Seeded(o.draws)
               /\ IF o.ok THEN pc' = "loop" /\ halt' = halt ELSE Raised
               /\ trace' = [op |-> "replenish", pushed |-> Len(o.heap) - Len(event_queue)]
       ELSE /\ pc' = "loop"
            /\ trace' = [op |-> "replenish", pushed |-> 0]
            /\ UNCHANGED <<event_queue, halt, tape, rng_pos>>
    /\ UNCHANGED <<cfg, simulation_time, active_scenarios, entities, dicts,
                   schema_registry, event_count, cur, emitted, entropy, run_no, first_run,
                   next_sid>>

\* What the sinks received: the events without the history fields
Stream(es) ==
    [i \in DOMAIN es |-> [event_type |-> es[i].event_type, payload |-> es[i].payload,
                          timestamp |-> es[i].timestamp]]

\* run_command once more on the same configuration, when it carries a seed: a
\* new Orchestrator, random.seed(seed) again, so the seeded stream starts
\* over.  What uuid.uuid4 draws from belongs to the system and is not reset.
\* first_run keeps what the first run emitted.
Restart ==
    /\ pc \in {"done", "crashed"}
    /\ run_no = 1
    /\ cfg.simulation_settings.random_seed # Unset
    /\ run_no' = 2
    /\ first_run' = Stream(emitted)
    /\ pc' = "initialize"
    /\ simulation_time' = 0
    /\ event_queue' = <<>>
    /\ active_scenarios' = <<>>
    /\ entities' = EmptyDict
    /\ dicts' = <<>>
    /\ schema_registry' = cfg.schemas
    /\ event_count' = 0
    /\ cur' = NoEvent
    /\ emitted' = <<>>
    /\ halt' = ""
    /\ next_sid' = 0
    /\ rng_pos' = 0
    /\ trace' = [op |-> "init"]
    /\ UNCHANGED <<cfg, entropy, tape>>

Next ==
    \/ CreateInitialEntities
    \/ ScheduleInitialEvents
    \/ InitializeScenarios
    \/ StopOnDuration
    \/ StopOnTotal
    \/ RefillEmptyQueue
    \/ Continue
    \/ PopNext
    \/ GenerateEvent
    \/ ProducesEntity
    \/ ProducesOrUpdatesEntity
    \/ UpdatesEntityState
    \/ EmitEvent
    \/ ProcessScenarios
    \/ Replenish
    \/ Restart

Spec == Init /\ [][Next]_vars

\* run() is one thread that takes its next step whenever it has one; the
\* condition is stated for the runs without event types
LiveSpec == Spec /\ WF_vars(DOMAIN cfg.event_types = {} /\ Next)

\* the same thread in the runs with a duration
TimedSpec == Spec /\ WF_vars(cfg.simulation_settings.duration # Unset /\ Next)

---------------------------------------------------------------------------
\* The scheduler queue on its own: any sequence of heappush and heappop on
\* self.event_queue.  An entry's origin is the number of the push that put it
\* there; trace counts the pushes and keeps the entry a pop took.

QueueInit == Init /\ cfg.name = "empty"

\* heapq.heappush(self.event_queue, ScheduledEvent(event_type, scheduled_time))
QueuePush ==
    /\ trace.op \in {"init", "pop", "push"}
    /\ LET n == IF trace.op = "init" THEN 0 ELSE trace.pushes
       IN /\ n < MaxPushes
          /\ \E t \in 0..1 :
                event_queue' = heappush(event_queue,
                                        ScheduledEvent("tick", t, NoContext, n + 1))
          /\ trace' = [op |-> "push", pushes |-> n + 1, item |-> None]
    /\ UNCHANGED <<cfg, pc, simulation_time, active_scenarios, entities, dicts,
                   schema_registry, event_count, cur, emitted, halt, entropy, tape,
                   rng_pos, run_no, first_run, next_sid>>

\* scheduled_event = heapq.heappop(self.event_queue)
QueuePop ==
    /\ trace.op \in {"pop", "push"}
    /\ event_queue # <<>>
    /\ event_queue' = heappop(event_queue).heap
    /\ trace' = [op |-> "pop", pushes |-> trace.pushes, item |-> heappop(event_queue).item]
    /\ UNCHANGED <<cfg, pc, simulation_time, active_scenarios, entities, dicts,
                   schema_registry, event_count, cur, emitted, halt, entropy, tape,
                   rng_pos, run_no, first_run, next_sid>>

QueueSpec == QueueInit /\ [][QueuePush \/ QueuePop]_vars

---------------------------------------------------------------------------
\* The store on its own: any sequence of calls of the StateManager, on types
\* user and item with primary key user_id, id a or none in the data; the
\* updates name a type and an id that are there and ones that are not.
\* trace keeps the call and what it returned.

StoreInit == Init /\ cfg.name = "empty"

\* create_entity(entity_type, data, primary_key)
StoreCreate ==
    /\ Len(dicts) < MaxCreates
    /\ \E t \in {"user", "item"} :
       \E data \in {[user_id |-> Str("a"), tier |-> Str("free")],
                    [user_id |-> Str("a"), tier |-> Str("pro")],
                    [tier |-> Str("free")]} :
          LET dd == Append(dicts, data)
              entity == NewEntity(dd, t, Len(dd), "user_id", entropy + 1)
          IN /\ dicts' = dd
             /\ entities' = create_entity(entities, dd, t, Len(dd), "user_id", entropy + 1)
             /\ trace' = [op |-> "create_entity", entity_type |-> t, returned |-> entity]
    /\ entropy' = entropy + 1
    /\ UNCHANGED <<cfg, pc, simulation_time, event_queue, active_scenarios,
                   schema_registry, event_count, cur, emitted, halt, tape, rng_pos,
                   run_no, first_run, next_sid>>

\* update_entity(entity_type, entity_id, data)
StoreUpdateData ==
    /\ \E t \in {"user", "order"} :
       \E id \in {Str("a"), Str("c")} :
       \E data \in {[tier |-> Str("gold")]} :
          /\ dicts' = update_entity(entities, dicts, t, id, data)
          /\ trace' = [op |-> "update_entity", entity_type |-> t, id |-> id,
                       returned |-> get_entity(entities, t, id)]
    /\ UNCHANGED <<cfg, pc, simulation_time, event_queue, active_scenarios, entities,
                   schema_registry, event_count, cur, emitted, halt, entropy, tape,
                   rng_pos, run_no, first_run, next_sid>>

\* update_entity_state(entity_type, entity_id, set_attributes,
\* increment_attributes)
StoreUpdateState ==
    /\ \E t \in {"user", "order"} :
       \E id \in {Str("a"), Str("c")} :
       \E sets \in {<<>>, <<[key |-> "label", value |-> Str("x")]>>} :
       \E incs \in {<<>>, <<[key |-> "count", value |-> Num(1)]>>} :
          LET r == update_entity_state(entities, t, id, sets, incs)
              after == get_entity(r.st, t, id)
          IN /\ r.ok
             /\ after # None /\ "count" \in DOMAIN after.state
                   => after.state.count.num <= MaxCount
             /\ entities' = r.st
             /\ trace' = [op |-> "update_entity_state", entity_type |-> t, id |-> id,
                          returned |-> IF r.found THEN after ELSE None]
    /\ UNCHANGED <<cfg, pc, simulation_time, event_queue, active_scenarios, dicts,
                   schema_registry, event_count, cur, emitted, halt, entropy, tape,
                   rng_pos, run_no, first_run, next_sid>>

\* find_entities(entity_type, filters) and count_entities(entity_type,
\* filters) with a single predicate: on a state key that is there only after
\* an increment, on a data path that is nowhere, or on a data field that is
\* always there; the operator named as the source names it, as the
\* specification names it, or by a name neither knows
StoreFind ==
    /\ \E t \in {"user"} :
       \E f \in {[field |-> <<"state", "count">>, operator |-> "less_than", value |-> Num(1)],
                 [field |-> <<"state", "count">>, operator |-> "ge", value |-> Num(1)],
                 [field |-> <<"profile", "age">>, operator |-> "greater_than", value |-> Num(1)],
                 [field |-> <<"tier">>, operator |-> "equals", value |-> Str("free")],
                 [field |-> <<"tier">>, operator |-> "eq", value |-> Str("free")],
                 [field |-> <<"tier">>, operator |-> "like", value |-> Str("free")]} :
          trace' = [op |-> "find_entities", entity_type |-> t, filter |-> f,
                    found |-> find_entities(entities, dicts, t, <<f>>),
                    count |-> count_entities(entities, dicts, t, <<f>>)]
    /\ UNCHANGED <<cfg, pc, simulation_time, event_queue, active_scenarios, entities,
                   dicts, schema_registry, event_count, cur, emitted, halt, entropy,
                   tape, rng_pos, run_no, first_run, next_sid>>

StoreSpec ==
    StoreInit /\ [][StoreCreate \/ StoreUpdateData \/ StoreUpdateState \/ StoreFind]_vars

---------------------------------------------------------------------------
\* config/loader.py: imports.  A configuration file is the dict yaml.safe_load
\* gives: a mapping from keys to scalars, lists (List) and mappings (Obj); its
\* key "imports", when it has one, is the list of the paths it imports.

\* deep_merge_dicts: the overlay's keys over the base's; on a key of both,
\* two mappings are merged, two lists are joined base first, and anything
\* else is the overlay's value
ListJoinOverlayFirst(base_list, overlay_list) == overlay_list \o base_list

ListJoin(base_list, overlay_list) == base_list \o overlay_list

RECURSIVE deep_merge_dicts(_, _)
deep_merge_dicts(base, overlay) ==
    [key \in DOMAIN base \cup DOMAIN overlay |->
        IF key \notin DOMAIN overlay THEN base[key]
        ELSE IF key \notin DOMAIN base THEN overlay[key]
        ELSE IF "obj" \in DOMAIN base[key] /\ "obj" \in DOMAIN overlay[key]
             THEN Obj(deep_merge_dicts(base[key].obj, overlay[key].obj))
             ELSE IF "list" \in DOMAIN base[key] /\ "list" \in DOMAIN overlay[key]
                  THEN List(ListJoin(base[key].list, overlay[key].list))
                  ELSE overlay[key]]

\* config_dict.pop("imports") and config_dict.copy(): the dict without the key
KeepImports(config_dict) == config_dict

WithoutImports(config_dict) ==
    [k \in DOMAIN config_dict \ {"imports"} |-> config_dict[k]]

\* The set a call of resolve_imports goes on with after an import returned:
\* the import worked on a copy (processed_files.copy()), so the caller's own
\* set; imported is the set the import ended with
SharedWithImport(own, imported) == imported

AfterImport(own, imported) == own

\* resolve_imports(config_path, config_dict, processed_files) over the files
\* fs (path -> dict; a path outside it does not exist):
\* [ok, error, config, processed], processed being the call's set at its end
RECURSIVE resolve_imports(_, _, _, _)
RECURSIVE ImportLoop(_, _, _, _, _, _)
resolve_imports(config_path, config_dict, processed_files, fs) ==
    IF config_path \in processed_files
    THEN [ok |-> FALSE, error |-> "Circular import detected", config |-> config_dict,
          processed |-> processed_files]
    ELSE LET processed == processed_files \cup {config_path}
         IN IF "imports" \notin DOMAIN config_dict
            THEN [ok |-> TRUE, error |-> "", config |-> config_dict,
                  processed |-> processed]
            ELSE IF "list" \notin DOMAIN config_dict["imports"]
                 THEN [ok |-> FALSE, error |-> "'imports' must be a list of file paths",
                       config |-> config_dict, processed |-> processed]
                 ELSE ImportLoop(config_path, config_dict["imports"].list, 1,
                                 WithoutImports(config_dict), processed, fs)

\* the loop over the imports, from the i-th on, merged being merged_config
ImportLoop(config_path, imports, i, merged, processed, fs) ==
    IF i > Len(imports)
    THEN [ok |-> TRUE, error |-> "", config |-> merged, processed |-> processed]
    ELSE IF "str" \notin DOMAIN imports[i]
         THEN [ok |-> FALSE, error |-> "Import path must be a string",
               config |-> merged, processed |-> processed]
         ELSE IF imports[i].str \notin DOMAIN fs
              THEN [ok |-> FALSE, error |-> "Import file not found",
                    config |-> merged, processed |-> processed]
              ELSE LET Then(r) ==
                          IF ~r.ok
                          THEN [r EXCEPT !.processed = AfterImport(processed, r.processed)]
                          ELSE ImportLoop(config_path, imports, i + 1,
                                          deep_merge_dicts(r.config, merged),
                                          AfterImport(processed, r.processed), fs)
                   IN Then(resolve_imports(imports[i].str, fs[imports[i].str],
                                           processed, fs))

\* The files of a project, any of which load_config can be given; gone.yaml
\* is a path no file is at.
Files == {"main.yaml", "a.yaml", "b.yaml"}

\* what a file says besides its imports
FileBody(path) ==
    IF path = "main.yaml"
    THEN [name |-> Str("main"), tags |-> List(<<Str("m")>>),
          opts |-> Obj([x |-> Str("m"), y |-> Str("m")]), mode |-> Str("m")]
    ELSE IF path = "a.yaml"
         THEN [name |-> Str("a"), tags |-> List(<<Str("a")>>),
               opts |-> Obj([x |-> Str("a"), z |-> Str("a")]),
               mode |-> List(<<Str("a")>>)]
         ELSE [name |-> Str("b"), tags |-> List(<<Str("b")>>),
               opts |-> Obj([y |-> Str("b"), w |-> Str("b")]), extra |-> Str("b")]

\* the imports lists a file can have: up to MaxImports different paths
ImportLists ==
    UNION {{q \in [1..n -> Files \cup {"gone.yaml"}] : \A i, j \in 1..n : i # j => q[i] # q[j]} :
               n \in 0..MaxImports}

\* a file without imports key, or with one of the lists
FileDicts(path) ==
    {FileBody(path)} \cup
    {DictSet(FileBody(path), "imports", List([i \in DOMAIN q |-> Str(q[i])])) :
         q \in ImportLists}

FileSystems ==
    {[f \in Files |-> IF f = "main.yaml" THEN m ELSE IF f = "a.yaml" THEN a ELSE b] :
         m \in FileDicts("main.yaml"), a \in FileDicts("a.yaml"), b \in FileDicts("b.yaml")}

\* load_config(config_path): the file is read and its imports are resolved
LoadConfig ==
    /\ trace.op = "init"
    /\ \E fs \in FileSystems : \E config_path \in Files :
          trace' = [op |-> "resolve_imports", files |-> fs, config_path |-> config_path,
                    returned |-> resolve_imports(config_path, fs[config_path], {}, fs)]
    /\ UNCHANGED <<cfg, pc, simulation_time, event_queue, active_scenarios, entities,
                   dicts, schema_registry, event_count, cur, emitted, halt, entropy,
                   tape, rng_pos, run_no, first_run, next_sid>>

\* resolve_imports on the dict an earlier call returned
ResolveAgain ==
    /\ trace.op = "resolve_imports"
    /\ trace.returned.ok
    /\ trace' = [op |-> "resolve_again", files |-> trace.files,
                 config_path |-> trace.config_path, first |-> trace.returned,
                 returned |-> resolve_imports(trace.config_path, trace.returned.config,
                                              {}, trace.files)]
    /\ UNCHANGED <<cfg, pc, simulation_time, event_queue, active_scenarios, entities,
                   dicts, schema_registry, event_count, cur, emitted, halt, entropy,
                   tape, rng_pos, run_no, first_run, next_sid>>

ImportInit == Init /\ cfg.name = "empty"

ImportSpec == ImportInit /\ [][LoadConfig \/ ResolveAgain]_vars

---------------------------------------------------------------------------
\* generators.py: SchemaGenerator on its own, asked for an object with one
\* property p.

\* The schemas of the property: a type, and possibly a generator, params
\* with choices and weights, from_entity, $ref and nullable_probability
\* (in percent)
PropertySchemas ==
    LET With(key, values, schemas) ==
            schemas \cup {DictSet(d, key, v) : d \in schemas, v \in values}
        weights == UNION {[1..n -> 0..1] : n \in 0..MaxWeights}
        params == {[choices |-> <<Str("a"), Str("b")>>]} \cup
                  {[choices |-> <<Str("a"), Str("b")>>, weights |-> w] : w \in weights}
        typed == {[type |-> t] : t \in {"string", "integer", "blob"}}
        generated == With("params", params, With("generator", {"choice", "badge"}, typed))
        taken == generated \cup
                 {[from_entity |-> "buyer", field |-> <<"user_id">>, type |-> "string"],
                  [ref |-> "User"], [ref |-> "Nowhere"]}
    IN With("nullable_probability", {0, 50, 100}, taken)

\* SchemaGenerator.generate of the object, no entity being in the context or
\* in the store
GenerateObject ==
    /\ trace.op = "init"
    /\ \E schema \in PropertySchemas :
          \E o \in generate([type |-> "object",
                             properties |-> <<[name |-> "p", schema |-> schema]>>],
                            [simulation_time |-> simulation_time, entity |-> EmptyDict,
                             consumed_entities |-> <<>>, values |-> EmptyDict],
                            entities, dicts, schema_registry, entropy) :
              trace' = [op |-> "generate_object", schema |-> schema, returned |-> o]
    /\ UNCHANGED <<cfg, pc, simulation_time, event_queue, active_scenarios, entities,
                   dicts, schema_registry, event_count, cur, emitted, halt, entropy,
                   tape, rng_pos, run_no, first_run, next_sid>>

SchemaInit == Init /\ cfg.name = "empty"

SchemaSpec == SchemaInit /\ [][GenerateObject]_vars

---------------------------------------------------------------------------
\* Properties of the runs.

\* C1: in every run the emitted events carry non-decreasing timestamps: each
\* event's timestamp is at least that of the event emitted before it,
\* whatever mix of primed, replenished and scenario entries the queue holds.
C1_MonotoneTimestamps ==
    \A i \in 1..(Len(emitted) - 1) : emitted[i + 1].timestamp >= emitted[i].timestamp

\* Two events emitted at increasing times from entries of different origins,
\* with the third kind of entry waiting in the queue.
C1_Witness ==
    /\ Len(emitted) >= 2
    /\ emitted[1].timestamp < emitted[2].timestamp
    /\ {emitted[1].h.origin, emitted[2].h.origin}
          \cup {event_queue[k].origin : k \in DOMAIN event_queue}
          = {"initial", "additional", "scenario"}

\* C2: every emitted event was feasible when it was generated: for each
\* consumes_entities entry of its type the store held at least min_required
\* entities matching the selection filter.
C2_EmittedWasFeasible ==
    \A i \in DOMAIN emitted : emitted[i].h.feasible

\* A purchase was emitted for a user that matched, and a later purchase has
\* just been skipped because no user matches any more.
C2_Witness ==
    /\ \E i \in DOMAIN emitted : emitted[i].event_type = "purchase"
    /\ trace.op = "generate"
    /\ trace.outcome = "skip"
    /\ trace.why = "infeasible"

\* C3: in a run with a duration D no event is emitted whose timestamp lies
\* more than D after the start.
C3_WithinDuration ==
    cfg.simulation_settings.duration # Unset =>
        \A i \in DOMAIN emitted :
            emitted[i].timestamp - 0 <= cfg.simulation_settings.duration

\* C4: in a run with total_events N the count of emitted events never exceeds
\* N, and a run that has ended for any reason other than an empty queue after
\* replenishment or the duration has emitted exactly N events.
C4_ExactlyTotal ==
    cfg.simulation_settings.total_events # Unset =>
        /\ event_count <= cfg.simulation_settings.total_events
        /\ (pc \in {"done", "crashed"} /\ halt \notin {"empty", "duration"})
              => event_count = cfg.simulation_settings.total_events

\* C5: an error raised while one event is generated (a schema that is not
\* found, an unknown generator, an unknown name in a derived expression, a
\* type mismatch on increment) ends that event only: the run is never ended
\* by it.
C5_ErrorContained ==
    ~(pc = "crashed" /\ trace.op \in {"generate", "update_entity_state"})

\* C6: every scenario instance gets a scheduled event for each of its steps,
\* in order: between two iterations of the loop an instance either has an
\* entry waiting in the queue or has had all its steps scheduled.
C6_EveryStepScheduled ==
    pc = "loop" =>
        \A k \in DOMAIN active_scenarios :
            LET s == active_scenarios[k]
                pending == \E q \in DOMAIN event_queue :
                              /\ event_queue[q].origin = "scenario"
                              /\ event_queue[q].context.scenario_instance = s.sid
            IN ~pending => s.current_step >= Len(cfg.scenarios[s.scenario_name].steps)

\* C7: an instance whose current_step has reached the number of its steps is
\* marked completed.
C7_CompletedWhenExhausted ==
    \A k \in DOMAIN active_scenarios :
        LET s == active_scenarios[k]
        IN s.current_step = Len(cfg.scenarios[s.scenario_name].steps) => s.completed

\* C8: in every emitted scenario-step event, each payload_overrides key that
\* is a top-level property of the payload schema has the override's value in
\* the payload.
C8_OverridesFixPayload ==
    \A i \in DOMAIN emitted :
        LET e == emitted[i]
            schema == cfg.schemas[cfg.event_types[e.event_type].payload_schema]
        IN (e.h.origin = "scenario" /\ e.h.context.has_overrides) =>
              \A j \in DOMAIN e.h.context.payload_overrides :
                  LET o == e.h.context.payload_overrides[j]
                  IN (\E q \in DOMAIN schema.properties : schema.properties[q].name = o.key)
                        => (o.key \in DOMAIN e.payload /\ e.payload[o.key] = o.value)

\* C9: a state update whose increment fails with a type mismatch leaves the
\* entity exactly as it was before the call.
C9_UpdateAtomic ==
    (trace.op = "update_entity_state" /\ trace.called /\ ~trace.returned)
        => trace.after = trace.before

\* C10: a second run of the same configuration under the same seed emits the
\* stream of the first: the same event types, timestamps and payloads,
\* generated identifiers included.
C10_SameStream ==
    (run_no = 2 /\ pc = "done") => Stream(emitted) = first_run

\* C11: a handler that raises on an event does not keep the event from the
\* other handlers, its exception does not leave _emit_event, and the loop goes
\* on: the event is counted and the run is not ended by the emission.
C11_SinkErrorIsolated ==
    /\ event_count = Len(emitted)
    /\ ~(pc = "crashed" /\ trace.op = "emit")
    /\ \A i \in DOMAIN emitted :
          \A k \in DOMAIN emitted[i].h.raised :
              ~emitted[i].h.raised[k] => emitted[i].h.received[k]

\* The file handler raised on the first event, stdout received it, and a
\* second event was emitted and reached the file handler.
C11_Witness ==
    /\ Len(emitted) >= 2
    /\ emitted[1].h.raised[1]
    /\ emitted[1].h.received[2]
    /\ emitted[2].h.received[1]

\* C12: where purchase is the only event type that changes purchase_count
\* (it consumes one user and increments that user's count by 1, users start
\* at 0 and have fresh ids), between events the counts of all users add up
\* to the number of emitted purchase events.
C12_CounterConserved ==
    ("purchase" \in DOMAIN cfg.event_types /\ pc \in {"loop", "done"}) =>
        LET users == get_all_entities(entities, "user")
            total[i \in 0..Len(users)] ==
                IF i = 0 THEN 0 ELSE total[i - 1] + users[i].state.purchase_count.num
        IN total[Len(users)]
             = Cardinality({i \in DOMAIN emitted : emitted[i].event_type = "purchase"})

\* Two users, one of them created by an event, and a purchase emitted.
C12_Witness ==
    /\ pc = "loop"
    /\ "purchase" \in DOMAIN cfg.event_types
    /\ Len(get_all_entities(entities, "user")) >= 2
    /\ \E i \in DOMAIN emitted : emitted[i].event_type = "purchase"
    /\ \E i \in DOMAIN emitted : emitted[i].event_type = "signup"

\* C13: when the only event type that needs no entity has weight 0 and the
\* other one consumes an entity type with no initial entities, no event of
\* the consuming type is emitted, replenishment adds nothing and the run
\* does not end with an error.
C13_StarvedRunEndsCleanly ==
    cfg.name = "starved" =>
        /\ \A i \in DOMAIN emitted : emitted[i].event_type # "purchase"
        /\ trace.op = "replenish" => trace.pushed = 0
        /\ pc # "crashed"

\* C14: with no event types the run comes to its end on the empty queue,
\* after a replenishment that added nothing, having emitted no event and
\* raised no error, whether or not scenarios are configured.
C14_NoEventTypesEndsCleanly ==
    (DOMAIN cfg.event_types = {}) =>
        <>[](pc = "done" /\ halt = "empty" /\ trace.op = "refill" /\ emitted = <<>>)

\* The run with scenarios: instances were started and the run is over.
C14_Witness ==
    /\ DOMAIN cfg.event_types = {}
    /\ active_scenarios # <<>>
    /\ pc = "done" /\ halt = "empty" /\ emitted = <<>>

\* C15: when the popped entry is of an event type some consumption of which
\* finds fewer than min_required matching entities, processing it emits
\* nothing, leaves the entities with their data and state, the number of
\* emitted events and the schema registry as they were, and the loop goes on.
C15_InfeasibleSkipHasNoEffect ==
    [][(/\ pc = "generate"
        /\ cur.event_type \in DOMAIN cfg.event_types
        /\ can_generate_event(cfg, entities, dicts, cur.event_type) = Ok(FALSE))
       => /\ UNCHANGED <<entities, dicts, schema_registry, event_count, emitted>>
          /\ pc' = "scenarios"]_vars

\* A purchase is skipped while the store holds a user who has bought already.
C15_Witness ==
    /\ pc = "scenarios"
    /\ trace.op = "generate" /\ trace.outcome = "skip" /\ trace.why = "infeasible"
    /\ cur.event_type = "purchase"
    /\ event_count = 1
    /\ get_all_entities(entities, "user") # <<>>

\* C16: a step that adds to the queue entries pushed by replenishment adds
\* them only for event types that can be generated in the store as it is at
\* that step: every consumption of the type finds at least min_required
\* matching entities.
C16_ReplenishedWasFeasible ==
    [][\A t \in DOMAIN cfg.event_types :
          LET Pushed(q) == Cardinality({k \in DOMAIN q : /\ q[k].origin = "additional"
                                                          /\ q[k].event_type = t})
          IN Pushed(event_queue') > Pushed(event_queue)
                => can_generate_event(cfg, entities, dicts, t) = Ok(TRUE)]_vars

\* Replenishment pushed entries while one of the event types was infeasible.
C16_Witness ==
    /\ trace.op = "replenish" /\ trace.pushed > 0
    /\ \E k \in DOMAIN event_queue : event_queue[k].origin = "additional"
    /\ \E t \in DOMAIN cfg.event_types :
          can_generate_event(cfg, entities, dicts, t) = Ok(FALSE)

\* C17: at the replenish step that ends an iteration, a queue below the low
\* water mark and at least one feasible event type give exactly one batch of
\* new entries; a queue at or above the mark gets none.
C17_ReplenishBatch ==
    [][pc = "replenish" =>
          /\ (/\ Len(event_queue) < QueueLowWater
              /\ \E t \in DOMAIN cfg.event_types :
                    can_generate_event(cfg, entities, dicts, t) = Ok(TRUE))
                => Len(event_queue') = Len(event_queue) + BatchSize
          /\ Len(event_queue) >= QueueLowWater => event_queue' = event_queue]_vars

\* C18: the effects of one event come in the order consumption and payload,
\* produces_entity, produces_or_updates_entity, updates_entity_state,
\* emission; the store changes at none of the steps from the emission to the
\* next pop, and events reach the sinks at the emission step only; an update
\* whose alias is the entity type the event produces changes the state of
\* the entity made from this event's payload and of no other.
C18_EffectOrder ==
    [][LET Rank == [generate |-> 1, produce |-> 2, produce_or_update |-> 3,
                    update_state |-> 4, emit |-> 5]
           def == cfg.event_types[cur.event_type]
       IN /\ (pc \in DOMAIN Rank /\ pc' \in DOMAIN Rank) =>
                 \/ Rank[pc] < Rank[pc']
                 \/ pc = "update_state" /\ pc' = pc /\ cur'.upd = cur.upd + 1
          /\ pc \in {"emit", "scenarios", "replenish", "loop"} =>
                 UNCHANGED <<entities, dicts>>
          /\ Len(emitted') > Len(emitted) => pc = "emit"
          /\ (/\ pc = "update_state"
              /\ "produces_entity" \in DOMAIN def
              /\ def.produces_entity \in DOMAIN cfg.entities
              /\ def.updates_entity_state[cur.upd].entity_alias = def.produces_entity)
             => LET es == get_all_entities(entities, def.produces_entity)
                    es2 == get_all_entities(entities', def.produces_entity)
                IN /\ trace'.called /\ trace'.found
                   /\ trace'.before.data = cur.payload
                   /\ DOMAIN es2 = DOMAIN es
                   /\ \A k \in DOMAIN es :
                         IF es[k].data = cur.payload
                         THEN es2[k].state # es[k].state
                         ELSE es2[k] = es[k]]_vars

\* A signup has reached the sinks: the user made from its payload carries
\* the mark of the update, the user that was there before does not.
C18_Witness ==
    /\ trace.op = "emit"
    /\ cur.event_type = "signup"
    /\ LET users == get_all_entities(entities, "user")
       IN /\ Len(users) = 2
          /\ users[2].data = cur.payload
          /\ "last_status" \in DOMAIN users[2].state
          /\ users[2].state.last_status = Str("new")
          /\ "last_status" \notin DOMAIN users[1].state

\* C19: when an event has been handed to the sinks, every property of its
\* payload that is resolved through from_entity holds the field of an entity
\* that the store holds, under its type and id, at that time.
C19_ReferencedEntityPresent ==
    (trace.op = "emit" /\ emitted # <<>>) =>
        LET event == emitted[Len(emitted)]
            props == cfg.schemas[cfg.event_types[event.event_type].payload_schema].properties
        IN \A k \in DOMAIN props :
              "from_entity" \in DOMAIN props[k].schema =>
                 \E t \in DOMAIN entities : \E j \in DOMAIN entities[t] :
                    LET e == entities[t][j]
                    IN /\ e.entity_type = t
                       /\ get_entity(entities, t, e.id) = e
                       /\ WalkPath(Obj(dicts[e.data]), props[k].schema.field, 1)
                            = event.payload[props[k].name]

\* A purchase was emitted that names the first of two users as its buyer.
C19_Witness ==
    /\ trace.op = "emit" /\ emitted # <<>>
    /\ emitted[Len(emitted)].event_type = "purchase"
    /\ LET users == get_all_entities(entities, "user")
       IN /\ Len(users) = 2
          /\ emitted[Len(emitted)].payload.buyer = dicts[users[1].data].user_id
          /\ emitted[Len(emitted)].payload.buyer # dicts[users[2].data].user_id

\* C20: the schemas are read-only after load: whatever events have been
\* processed, scenario steps with payload_overrides among them, every schema
\* of the registry is what the configuration gave at load time.
C20_SchemasReadOnly ==
    schema_registry = cfg.schemas

\* C21: whatever pushes and pops came before, a pop takes an entry of the
\* least scheduled_time in the queue and, among the entries of that time, the
\* one that was pushed first.
C21_TimeThenFifo ==
    [][trace'.op = "pop" =>
          \A k \in DOMAIN event_queue :
             \/ trace'.item.scheduled_time < event_queue[k].scheduled_time
             \/ /\ trace'.item.scheduled_time = event_queue[k].scheduled_time
                /\ trace'.item.origin <= event_queue[k].origin]_vars

\* C22: at every point of a run the active scenario instances are at most
\* as many as the slots (5 in the source): initialization starts up to that
\* many, and later initiations only fill the active set back up to it.
C22_AtMostSlotsActive ==
    Len(active_scenarios) <= ScenarioSlots

\* C23: a step that adds scenario instances adds only instances every
\* requirement of which has a matching entity in the store at that step, each
\* alias bound to an entity that matches its requirement; it pushes one
\* entry per instance it adds, so an abandoned initiation adds no instance
\* and pushes nothing.
C23_StartedOnlyWithMatches ==
    [][Len(active_scenarios') > Len(active_scenarios) =>
          /\ \A k \in (Len(active_scenarios) + 1)..Len(active_scenarios') :
                LET s == active_scenarios'[k]
                    def == cfg.scenarios[s.scenario_name]
                    reqs == IF "requires_initial_entities" \in DOMAIN def
                            THEN def.requires_initial_entities ELSE <<>>
                IN \A r \in DOMAIN reqs :
                      LET found == find_entities(entities, dicts, reqs[r].name,
                                                 IF "selection_filter" \in DOMAIN reqs[r]
                                                 THEN reqs[r].selection_filter ELSE <<>>)
                      IN /\ found.ok /\ found.v # <<>>
                         /\ \E b \in DOMAIN s.entities : \E m \in DOMAIN found.v :
                               /\ s.entities[b].alias = reqs[r].alias
                               /\ s.entities[b].entity_type = found.v[m].entity_type
                               /\ s.entities[b].id = found.v[m].id
          /\ Len(event_queue') - Len(event_queue)
                = Len(active_scenarios') - Len(active_scenarios)]_vars

\* With no user in the store one of two initiations was abandoned: one
\* instance of the scenario without requirements, one entry in the queue.
C23_Witness ==
    /\ trace.op = "initialize_scenarios"
    /\ "onboard" \in DOMAIN cfg.scenarios /\ "welcome" \in DOMAIN cfg.scenarios
    /\ get_all_entities(entities, "user") = <<>>
    /\ Len(active_scenarios) = 1
    /\ Len(event_queue) = 1

\* C24: after create_entity the store gives the returned entity under its
\* type and id, the id being data[primary_key] when the data has the key;
\* the type has as many entities as before if the id was there already and
\* one more otherwise, and every other entity is as it was.
C24_CreateLastWriterWins ==
    [][trace'.op = "create_entity" =>
          LET t == trace'.entity_type
              made == trace'.returned
              old == get_all_entities(entities, t)
              new == get_all_entities(entities', t)
          IN /\ get_entity(entities', t, made.id) = made
             /\ made.data = Len(dicts')
             /\ "user_id" \in DOMAIN dicts'[made.data] => made.id = dicts'[made.data].user_id
             /\ Len(new) = Len(old) + (IF get_entity(entities, t, made.id) = None
                                       THEN 1 ELSE 0)
             /\ \A u \in DOMAIN entities : \A k \in DOMAIN entities[u] :
                   (u # t \/ entities[u][k].id # made.id)
                      => get_entity(entities', u, entities[u][k].id) = entities[u][k]
             /\ \A k \in DOMAIN dicts : dicts'[k] = dicts[k]]_vars

\* An entity was created over another of the same type and id, next to a
\* third one: the store holds the new data under the id.
C24_Witness ==
    /\ trace.op = "create_entity"
    /\ trace.returned.data = 3
    /\ Len(get_all_entities(entities, trace.entity_type)) = 2
    /\ dicts[3].tier # dicts[1].tier
    /\ "user_id" \in DOMAIN dicts[1] /\ "user_id" \in DOMAIN dicts[3]
    /\ dicts[3].user_id = dicts[1].user_id

\* C25: at every point of a run every entity of the store is found under
\* its own type and id, and when its data has the primary key field its id
\* is the value of that field.
C25_IdIsPrimaryKey ==
    \A t \in DOMAIN entities : \A k \in DOMAIN entities[t] :
        LET e == entities[t][k]
        IN /\ e.entity_type = t
           /\ get_entity(entities, t, e.id) = e
           /\ e.primary_key \in DOMAIN dicts[e.data] => e.id = dicts[e.data][e.primary_key]

\* C26: an ordering predicate on a field that an entity lacks (a data path
\* with a missing segment, a state key that is absent) is false for that
\* entity: find and count return without an error and the entity is not
\* among the matches.
C26_MissingFieldIsNoMatch ==
    (/\ trace.op = "find_entities"
     /\ trace.filter.operator \in {"greater_than", "less_than",
                                    "greater_equals", "less_equals"})
    => LET es == get_all_entities(entities, trace.entity_type)
           lacking == {k \in DOMAIN es :
                          ActualValue(es[k], dicts, trace.filter.field) = None}
       IN lacking # {} =>
             /\ trace.found.ok /\ trace.count.ok
             /\ \A k \in lacking : \A m \in DOMAIN trace.found.v :
                   trace.found.v[m].id # es[k].id

\* C27: the operator identifiers eq, ne, gt, lt, ge, le, contains,
\* not_contains, in and not_in are accepted by matches, and only identifiers
\* outside that set fail as an unknown operator.
C27_SpecOperatorsAccepted ==
    (/\ trace.op = "find_entities"
     /\ get_all_entities(entities, trace.entity_type) # <<>>)
    => (trace.filter.operator \in {"eq", "ne", "gt", "lt", "ge", "le", "contains",
                                    "not_contains", "in", "not_in"}
           <=> ~(~trace.found.ok /\ trace.found.err = "ValueError"))

\* C28: update_entity and update_entity_state called with an entity type or
\* an id the store does not hold return None without raising and leave the
\* store as it was: no type and no entity is added, no data and no state
\* changes.
C28_UpdateOfMissingIsNoOp ==
    [][(/\ trace'.op \in {"update_entity", "update_entity_state"}
        /\ get_entity(entities, trace'.entity_type, trace'.id) = None)
       => /\ trace'.returned = None
          /\ entities' = entities
          /\ dicts' = dicts]_vars

\* The store holds a user of id a with data and state, and an update of its
\* state was called for an id that is not there.
C28_Witness ==
    /\ trace.op = "update_entity_state"
    /\ trace.entity_type = "user" /\ trace.id = Str("c")
    /\ trace.returned = None
    /\ get_entity(entities, "user", Str("a")) # None
    /\ get_entity(entities, "user", Str("a")).state # EmptyDict

\* C29: every entity the orchestrator creates (initial population,
\* produces_entity, the create branch of produces_or_updates_entity) has, at
\* its creation, every state attribute its type declares: the value of
\* data[from_field] when the attribute declares from_field, the attribute's
\* default otherwise.
C29_DeclaredAttributesInitialised ==
    [][LET Initialised(e) ==
               \A i \in DOMAIN cfg.entities[e.entity_type].state_attributes :
                  LET a == cfg.entities[e.entity_type].state_attributes[i]
                      data == dicts'[e.data]
                  IN /\ a.name \in DOMAIN e.state
                     /\ IF "from_field" \in DOMAIN a.def
                        THEN /\ a.def.from_field \in DOMAIN data
                             /\ e.state[a.name] = data[a.def.from_field]
                        ELSE /\ "default" \in DOMAIN a.def
                             /\ e.state[a.name] = a.def.default
       IN /\ trace'.op = "create_initial_entities"
             => \A t \in DOMAIN entities' : \A k \in DOMAIN entities'[t] :
                   Initialised(entities'[t][k])
          /\ (/\ \/ trace'.op = "produces_entity"
                  \/ /\ trace'.op = "produces_or_updates_entity"
                     /\ trace'.branch = "create"
              /\ entities' # entities)
             => \A t \in DOMAIN cur'.entity : Initialised(cur'.entity[t].one)]_vars

\* C30: a produces_or_updates_entity step for type T that takes the update
\* branch while entities of T exist merges the payload into the data of
\* exactly one of them (the payload's keys win, the other keys stay), adds
\* no entity and changes no state map; a step that draws the update branch
\* while no entity of T exists creates an entity from the payload instead.
C30_UpdateMergesOrCreates ==
    [][trace'.op = "produces_or_updates_entity" =>
          LET T == cfg.event_types[cur.event_type].produces_or_updates_entity
              existing == get_all_entities(entities, T)
              payload == dicts[cur.payload]
          IN /\ trace'.branch = "update"
                => /\ trace'.update_existing /\ existing # <<>>
                   /\ entities' = entities
                   /\ DOMAIN dicts' = DOMAIN dicts
                   /\ \E i \in DOMAIN existing :
                         /\ dicts'[existing[i].data] =
                                DictUpdate(dicts[existing[i].data], payload)
                         /\ \A j \in DOMAIN existing :
                               j # i => dicts'[existing[j].data] = dicts[existing[j].data]
             /\ (trace'.update_existing /\ existing = <<>>)
                => /\ Len(get_all_entities(entities', T)) = 1
                   /\ get_all_entities(entities', T)[1].data = cur.payload
                   /\ dicts' = dicts]_vars

\* an update step has merged a payload into one of two users: its data
\* carries the payload's user_id, the other user's data is as created
C30_Witness ==
    /\ trace.op = "produces_or_updates_entity" /\ trace.branch = "update"
    /\ Len(get_all_entities(entities, "user")) = 2
    /\ \E i, j \in 1..2 :
          /\ i # j
          /\ get_entity(entities, "user", trace.id) = entities.user[i]
          /\ dicts[entities.user[i].data].user_id = dicts[cur.payload].user_id
          /\ dicts[entities.user[i].data].user_id # entities.user[i].id
          /\ dicts[entities.user[j].data].user_id = entities.user[j].id

\* C31: when a file's imports resolve, for every key that the file and a
\* file it imports, directly or through other imports, both define: a scalar
\* of the importing file is the result's value; of two mappings the result
\* has every key of both, with the importing file's values; of two lists the
\* result has the imported file's elements first and the importing file's
\* elements after them, at its end.
C31_ImportingFileWins ==
    (trace.op = "resolve_imports" /\ trace.returned.ok) =>
        LET fs == trace.files
            Imported(f) == IF "imports" \in DOMAIN fs[f]
                           THEN {fs[f]["imports"].list[i].str :
                                     i \in DOMAIN fs[f]["imports"].list}
                           ELSE {}
            R1 == Imported(trace.config_path)
            R2 == R1 \cup UNION {Imported(g) : g \in R1}
            R3 == R2 \cup UNION {Imported(g) : g \in R2}
            mine == FileBody(trace.config_path)
            result == trace.returned.config
        IN \A g \in R3 : \A key \in DOMAIN mine \cap DOMAIN FileBody(g) :
              LET own == mine[key]
                  theirs == FileBody(g)[key]
              IN /\ key \in DOMAIN result
                 /\ "str" \in DOMAIN own => result[key] = own
                 /\ ("obj" \in DOMAIN own /\ "obj" \in DOMAIN theirs)
                    => /\ "obj" \in DOMAIN result[key]
                       /\ DOMAIN own.obj \cup DOMAIN theirs.obj \subseteq DOMAIN result[key].obj
                       /\ \A k \in DOMAIN own.obj : result[key].obj[k] = own.obj[k]
                 /\ ("list" \in DOMAIN own /\ "list" \in DOMAIN theirs)
                    => /\ "list" \in DOMAIN result[key]
                       /\ LET got == result[key].list
                              n == Len(got) - Len(own.list)
                          IN /\ n >= Len(theirs.list)
                             /\ SubSeq(got, n + 1, Len(got)) = own.list
                             /\ \E at \in 0..(n - Len(theirs.list)) :
                                   SubSeq(got, at + 1, at + Len(theirs.list)) = theirs.list

\* main.yaml imports a.yaml, which imports b.yaml: the result has main's
\* name, the lists of b, a and main in that order, and the options of all
C31_Witness ==
    /\ trace.op = "resolve_imports" /\ trace.returned.ok
    /\ trace.config_path = "main.yaml"
    /\ "imports" \in DOMAIN trace.files["main.yaml"]
    /\ trace.files["main.yaml"]["imports"] = List(<<Str("a.yaml")>>)
    /\ "imports" \in DOMAIN trace.files["a.yaml"]
    /\ trace.files["a.yaml"]["imports"] = List(<<Str("b.yaml")>>)
    /\ trace.returned.config.name = Str("main")
    /\ trace.returned.config.tags = List(<<Str("b"), Str("a"), Str("m")>>)
    /\ DOMAIN trace.returned.config.opts.obj = {"x", "y", "z", "w"}
    /\ trace.returned.config.extra = Str("b")

\* C32: resolving the imports of a file ends, with a result or with an
\* error.  It ends with the circular-import error only if some file that the
\* file reaches by imports (or the file itself) reaches itself; and when
\* every imported path exists it ends with that error exactly if so, so that
\* files that import the same third file without a cycle resolve.
C32_CircularIffOnChain ==
    trace.op = "resolve_imports" =>
        LET fs == trace.files
            Imported(f) == IF f \in DOMAIN fs /\ "imports" \in DOMAIN fs[f]
                           THEN {fs[f]["imports"].list[i].str :
                                     i \in DOMAIN fs[f]["imports"].list}
                           ELSE {}
            Step(S) == S \cup UNION {Imported(g) : g \in S}
            Reach(f) == Step(Step(Imported(f)))
            reached == {trace.config_path} \cup Reach(trace.config_path)
            cycle == \E g \in reached : g \in Reach(g)
            circular == trace.returned.error = "Circular import detected"
        IN /\ trace.returned.ok <=> trace.returned.error = ""
           /\ trace.returned.error \in
                 {"", "Circular import detected", "Import file not found"}
           /\ circular => cycle
           /\ trace.returned.ok => ~cycle /\ reached \subseteq DOMAIN fs
           /\ reached \subseteq DOMAIN fs => (circular <=> cycle)

\* main.yaml imports a.yaml and b.yaml, a.yaml imports b.yaml too, and
\* b.yaml imports nothing: the imports resolve, b's list is there twice
C32_Witness ==
    /\ trace.op = "resolve_imports" /\ trace.returned.ok
    /\ trace.config_path = "main.yaml"
    /\ "imports" \in DOMAIN trace.files["main.yaml"]
    /\ trace.files["main.yaml"]["imports"] = List(<<Str("a.yaml"), Str("b.yaml")>>)
    /\ "imports" \in DOMAIN trace.files["a.yaml"]
    /\ trace.files["a.yaml"]["imports"] = List(<<Str("b.yaml")>>)
    /\ "imports" \notin DOMAIN trace.files["b.yaml"]
    /\ trace.returned.config.tags = List(<<Str("b"), Str("b"), Str("a"), Str("m")>>)

\* C33: resolving the imports of an already resolved configuration gives
\* that configuration again, without an error.
C33_ResolveIdempotent ==
    trace.op = "resolve_again" =>
        /\ trace.returned.ok
        /\ trace.returned.config = trace.first.config

\* a resolved main.yaml that had merged a.yaml in is resolved again
C33_Witness ==
    /\ trace.op = "resolve_again" /\ trace.config_path = "main.yaml"
    /\ "imports" \in DOMAIN trace.files["main.yaml"]
    /\ trace.files["main.yaml"]["imports"] = List(<<Str("a.yaml")>>)
    /\ trace.first.config.tags = List(<<Str("a"), Str("m")>>)
    /\ trace.returned.config.tags = List(<<Str("a"), Str("m")>>)

\* C34: no run processes an event of a type with a consumes_entities entry
\* whose min_required is below 1: loading a configuration with such an entry
\* fails, so no orchestrator gets one.
C34_MinRequiredAtLeastOne ==
    (pc = "generate" /\ cur.event_type \in DOMAIN cfg.event_types) =>
        LET def == cfg.event_types[cur.event_type]
        IN "consumes_entities" \in DOMAIN def =>
              \A i \in DOMAIN def.consumes_entities :
                  "min_required" \in DOMAIN def.consumes_entities[i] =>
                      def.consumes_entities[i].min_required >= 1

\* C35: a property generated by the choice generator whose params have
\* weights of another length than the choices, the empty list included,
\* fails: no object is generated.
C35_WeightsLengthChecked ==
    (/\ trace.op = "generate_object"
     /\ "generator" \in DOMAIN trace.schema /\ trace.schema.generator = "choice"
     /\ trace.schema.type \in {"string", "integer"}
     /\ "nullable_probability" \notin DOMAIN trace.schema
     /\ "params" \in DOMAIN trace.schema
     /\ "weights" \in DOMAIN trace.schema.params
     /\ Len(trace.schema.params.weights) # Len(trace.schema.params.choices))
        => ~trace.returned.ok

\* C36: a property with nullable_probability 1.0 is null in every generated
\* object, and unless it refers to a schema the registry lacks the object is
\* generated, whatever the property's type, generator or from_entity; a
\* property with nullable_probability 0 is not null.
C36_NullableDecidesFirst ==
    (trace.op = "generate_object" /\ "nullable_probability" \in DOMAIN trace.schema) =>
        /\ trace.schema.nullable_probability = 100
           => /\ trace.returned.ok => trace.returned.v.obj.p = None
              /\ ("ref" \in DOMAIN trace.schema => trace.schema.ref \in DOMAIN schema_registry)
                 => trace.returned.ok
        /\ (trace.schema.nullable_probability = 0 /\ trace.returned.ok)
           => trace.returned.v.obj.p # None

\* a property taken from an entity no one has, with nullable_probability
\* 1.0: the object is generated and the property is null
C36_Witness ==
    /\ trace.op = "generate_object"
    /\ "from_entity" \in DOMAIN trace.schema
    /\ "nullable_probability" \in DOMAIN trace.schema
    /\ trace.schema.nullable_probability = 100
    /\ trace.returned.ok
    /\ trace.returned.v = Obj([p |-> None])

\* C37: a run of a configuration with a duration ends: as long as the loop
\* keeps taking its steps, it is eventually left.
C37_TimedRunEnds ==
    (cfg.simulation_settings.duration # Unset) ~> (pc \in {"done", "crashed"})

\* a run with a duration has emitted events and ended on the duration
C37_Witness ==
    /\ cfg.simulation_settings.duration # Unset
    /\ pc = "done"
    /\ event_count >= 1
    /\ simulation_time >= cfg.simulation_settings.duration

\* C38: after every step of a run the simulation time is at least the start
\* time (0) and no entry of the queue is scheduled before it; and within a
\* run only the step that pops an entry changes the simulation time.
C38_ClockMovesOnPop ==
    [][/\ simulation_time' >= 0
       /\ \A i \in DOMAIN event_queue' :
             event_queue'[i].scheduled_time >= simulation_time'
       /\ (simulation_time' # simulation_time /\ run_no' = run_no)
          => trace'.op = "pop"]_vars

\* an entry was popped and moved the clock, and entries are still queued
C38_Witness ==
    /\ trace.op = "pop"
    /\ simulation_time > 0
    /\ Len(event_queue) >= 2
    /\ \E i \in DOMAIN event_queue : event_queue[i].scheduled_time > simulation_time
    /\ \E i \in DOMAIN event_queue : event_queue[i].scheduled_time = simulation_time

\* C39: a produces_or_updates_entity step that takes the update branch
\* changes the data of the entity it updates and of no other entity of the
\* store, whatever payload the other entities were created from.
C39_UpdateTouchesOneEntity ==
    [][(trace'.op = "produces_or_updates_entity" /\ trace'.branch = "update") =>
          LET T == cfg.event_types[cur.event_type].produces_or_updates_entity
          IN \A t \in DOMAIN entities : \A k \in DOMAIN entities[t] :
                (t # T \/ entities[t][k].id # trace'.id)
                   => dicts'[entities[t][k].data] = dicts[entities[t][k].data]]_vars

\* C40: when a feasible event's state update names the alias of a
\* consumes_entities entry with min_required above 1, the update is applied
\* to an entity the event consumed and nothing is raised.
C40_AliasOfManyResolves ==
    (/\ trace.op = "update_entity_state"
     /\ "consumes_entities" \in DOMAIN cfg.event_types[cur.event_type]
     /\ \E i \in DOMAIN cfg.event_types[cur.event_type].consumes_entities :
           LET c == cfg.event_types[cur.event_type].consumes_entities[i]
           IN /\ c.alias = cfg.event_types[cur.event_type]
                               .updates_entity_state[cur.upd - 1].entity_alias
              /\ "min_required" \in DOMAIN c /\ c.min_required > 1)
        => /\ pc # "crashed"
           /\ trace.called
           /\ trace.found
           /\ \E i \in DOMAIN cur.consumed : \E k \in DOMAIN cur.consumed[i].entities :
                 cur.consumed[i].entities[k].id = trace.after.id

====
